---- MODULE Spec2Model ----
(***************************************************************************)
(* Model of the detection engine of "DOS tester/firewall.py"               *)
(* (class DoSDetector): the packet queue, the Processor loop               *)
(* (_process_packets), the per-source sliding window and signature         *)
(* counters, the threshold check, alert de-duplication over the bounded    *)
(* alert history, IP blocking, the Maintenance sweep and stop().           *)
(*                                                                         *)
(* Time is an integer clock `now` (time.time() in the source); one tick    *)
(* is one second.  A dictionary of the source (defaultdict) is a function  *)
(* whose DOMAIN is its key set, so that the presence of a key is part of   *)
(* the state.  The handling of one dequeued packet is one step, and so is  *)
(* one Maintenance sweep.                                                  *)
(***************************************************************************)
EXTENDS Integers, Sequences, FiniteSets, TLC

\* ------------------------------------------------------------------ bounds
\* The clock stops at MaxTime; at most MaxPackets packets are ever recorded.
MaxTime == 2
MaxPackets == 3
\* deque(maxlen=100) of the source, scaled down so that the overflow of the
\* history is within reach of the bounded runs.
AlertHistoryMaxlen == 1
\* The burst scenarios: 10 SYN packets within one second, 5 HTTP packets.
MaxSynPackets == 10
BurstSeconds == 1
MaxHttpPackets == 5
\* The scenario with failing steps.
MaxFailPackets == 2
MaxFailTime == 1
\* The shutdown scenario.
MaxLivePackets == 2
MaxLiveTime == 1
\* The scenario with a private source.
MaxPrivatePackets == 3
\* The scenario with the reporting API.
MaxReportPackets == 2
MaxReportTime == 1
\* The calls of _block_ip and _unblock_ip on their own: the firewall commands
\* they may run.
MaxEnforcerCommands == 3
\* The classification of one packet: the counters its source starts with.
MaxClassifyCounter == 1
\* The scenario of the statement-level steps of the two threads.
MaxRacePackets == 2
MaxRaceTime == 2
\* The scenario of the history overflow: the capacity of the deque and the
\* packets and the time it takes to overflow it.
MaxHistoryLen == 2
MaxHistoryPackets == 3
MaxHistoryTime == 2
\* The scenario of a source that is evicted and comes back inside the dedup
\* window: a time window long enough for that, and the packets and the time.
DedupWindow == 2
MaxDedupPackets == 3
MaxDedupTime == 3
\* The function-level specifications draw their inputs in Init: the counters,
\* the threshold and the window length of the threshold check; the length
\* and the clock of the window that is pruned.
MaxCounter == 4
MaxThreshold == 8
MaxWindowLen == 8
MaxPruneLen == 3
MaxPruneTime == 4

\* ------------------------------------------------------------------ inputs
PublicSources == {"a", "b"}
PrivateSources == {"p"}
Sources == PublicSources \cup PrivateSources
\* Configurations of the general specification.
Thresholds == {1, 4}
TimeWindows == {1}

\* A packet as the code looks at it: which layers it has (IP, TCP, ICMP, Raw),
\* the TCP flags 0x02 (SYN) and 0x10 (ACK), the destination port, the payload.
Pkt(src, ip, tcp, syn, ack, dport, raw, load, icmp) ==
    [src |-> src, ip |-> ip, tcp |-> tcp, syn |-> syn, ack |-> ack,
     dport |-> dport, raw |-> raw, load |-> load, icmp |-> icmp]
SynPacket(src) == Pkt(src, TRUE, TRUE, TRUE, FALSE, 22, FALSE, "", FALSE)
AckPacket(src) == Pkt(src, TRUE, TRUE, FALSE, TRUE, 22, FALSE, "", FALSE)
HttpPacket(src) == Pkt(src, TRUE, TRUE, FALSE, TRUE, 80, TRUE, "GET", FALSE)
SynHttpPacket(src) == Pkt(src, TRUE, TRUE, TRUE, FALSE, 443, TRUE, "POST", FALSE)
IcmpPacket(src) == Pkt(src, TRUE, FALSE, FALSE, FALSE, 0, FALSE, "", TRUE)
UdpPacket(src) == Pkt(src, TRUE, FALSE, FALSE, FALSE, 53, TRUE, "junk", FALSE)
ArpPacket == Pkt("none", FALSE, FALSE, FALSE, FALSE, 0, FALSE, "", FALSE)
PacketsFrom(src) ==
    {SynPacket(src), HttpPacket(src), SynHttpPacket(src), IcmpPacket(src),
     UdpPacket(src)}
\* The packets of the general specification.
Packets == {SynPacket("a"), UdpPacket("a"), IcmpPacket("b"), ArpPacket}

VARIABLES
    threshold,            \* self.threshold
    time_window,          \* self.time_window
    block_ips,            \* self.block_ips
    api_url,              \* self.api_url is set (TRUE) or None (FALSE)
    PROCESS_PRIVATE_IPS,  \* module global set by main()
    maxlen,               \* self.alert_history.maxlen
    running,              \* self.running
    now,                  \* time.time()
    packet_queue,         \* self.packet_queue
    packet_timestamps,    \* self.packet_timestamps : ip -> list of timestamps
    packet_counts,        \* self.packet_counts
    syn_flood_tracking,   \* self.syn_flood_tracking
    http_flood_tracking,  \* self.http_flood_tracking
    icmp_flood_tracking,  \* self.icmp_flood_tracking
    blocked_ips,          \* self.blocked_ips
    alert_history,        \* self.alert_history (deque, bounded)
    proc_pc,              \* position of the Processor thread
    maint_pc,             \* position of the Maintenance thread
    \* observation variables (not read by any operation)
    alert_log,            \* every alert ever appended to alert_history
    processed,            \* ip -> times at which a packet of ip was recorded
    last,                 \* what the Processor did with the last packet
    block_log,            \* every firewall command run by _block_ip
    unblock_log,          \* the commands run by _unblock_ip, in order
    stop_raised,          \* stop() ended by raising RuntimeError
    \* the threads' local variables, used by the statement-level steps
    proc_local,           \* _process_packets: src_ip, now, the list it holds
    maint_local           \* _maintenance_task: current_time, the keys left

config == <<threshold, time_window, block_ips, api_url, PROCESS_PRIVATE_IPS,
            maxlen>>
locals == <<proc_local, maint_local>>
stores == <<packet_timestamps, packet_counts, syn_flood_tracking,
            http_flood_tracking, icmp_flood_tracking>>
vars == <<threshold, time_window, block_ips, api_url, PROCESS_PRIVATE_IPS, maxlen,
          running, now, packet_queue, packet_timestamps, packet_counts,
          syn_flood_tracking, http_flood_tracking, icmp_flood_tracking,
          blocked_ips, alert_history, proc_pc, maint_pc, alert_log, processed,
          last, block_log, unblock_log, stop_raised, proc_local, maint_local>>

\* ------------------------------------------------------------ dictionaries
EmptyDict == [k \in {} |-> 0]
\* d[k] of a defaultdict(int) / d.get(k, 0): the value, 0 for a missing key.
Get(d, k) == IF k \in DOMAIN d THEN d[k] ELSE 0
\* d[k] of a defaultdict(list): the value, [] for a missing key.
GetList(d, k) == IF k \in DOMAIN d THEN d[k] ELSE <<>>
\* d[k] = v
Put(d, k, v) == [x \in DOMAIN d \cup {k} |-> IF x = k THEN v ELSE d[x]]
\* reading d[k] of a defaultdict(int) inserts the default for a missing key
Touch(d, k) == IF k \in DOMAIN d THEN d ELSE Put(d, k, 0)
\* d.pop(k, None) / del d[k]
Pop(d, k) == [x \in DOMAIN d \ {k} |-> d[x]]

\* ------------------------------------------------------------- classifier
Markers == {"GET", "POST", "HTTP"}
\* "GET" in payload or "POST" in payload or "HTTP" in payload
HasMarker(load) == load \in Markers
\* Mutant of the SYN test: the ACK flag is not looked at.
IsSyn_anySyn(packet) == packet.tcp /\ packet.syn

IsSyn(packet) == packet.tcp /\ packet.syn /\ ~packet.ack
IsHttp(packet) ==
    /\ packet.tcp
    /\ (packet.dport = 80 \/ packet.dport = 443)
    /\ packet.raw
    /\ HasMarker(packet.load)
IsIcmp(packet) == packet.icmp

_is_private_ip(ip) == ip \in PrivateSources

\* -------------------------------------------------------- sliding window
\* Mutants of _clean_old_timestamps: "<" for "<="; a set of timestamps in
\* place of the list (equal timestamps collapse).
_clean_old_timestamps_strict(pt, src_ip, current_time) ==
    IF src_ip \in DOMAIN pt
    THEN LET keep(ts) == current_time - ts < time_window
         IN Put(pt, src_ip, SelectSeq(pt[src_ip], keep))
    ELSE pt
_clean_old_timestamps_set(pt, src_ip, current_time) ==
    IF src_ip \in DOMAIN pt
    THEN LET w == pt[src_ip]
             keep(i) == current_time - w[i] <= time_window
                        /\ \A j \in 1..(i - 1) : w[j] # w[i]
             idx == SelectSeq([i \in DOMAIN w |-> i], keep)
         IN Put(pt, src_ip, [k \in DOMAIN idx |-> w[idx[k]]])
    ELSE pt

\* _clean_old_timestamps: the list comprehension keeps, in order, the
\* timestamps ts with current_time - ts <= self.time_window.
_clean_old_timestamps(pt, src_ip, current_time) ==
    IF src_ip \in DOMAIN pt
    THEN LET keep(ts) == current_time - ts <= time_window
         IN Put(pt, src_ip, SelectSeq(pt[src_ip], keep))
    ELSE pt

\* --------------------------------------------------------- threshold check
\* max(items, key=lambda x: x[1]): the first item, in iteration order, whose
\* value no later item exceeds (a later item replaces the best only when it
\* is strictly greater).
RECURSIVE PyMaxFrom(_, _, _)
PyMaxFrom(items, i, best) ==
    IF i > Len(items) THEN best
    ELSE PyMaxFrom(items, i + 1, IF items[i][2] > best[2] THEN items[i] ELSE best)
PyMax(items) == PyMaxFrom(items, 2, items[1])

\* Mutant of _determine_attack_type: ">=" for ">".
_determine_attack_type_ge(syn, http, icmp) ==
    LET attack_types == << <<"SYN flood", syn>>, <<"HTTP flood", http>>,
                           <<"ICMP flood", icmp>> >>
        max_type == PyMax(attack_types)
    IN IF max_type[2] >= threshold \div 5 THEN max_type[1] ELSE "General DoS"

\* _determine_attack_type on the three counters of the source
_determine_attack_type(syn, http, icmp) ==
    LET attack_types == << <<"SYN flood", syn>>, <<"HTTP flood", http>>,
                           <<"ICMP flood", icmp>> >>
        max_type == PyMax(attack_types)
    IN IF max_type[2] > threshold \div 5 THEN max_type[1] ELSE "General DoS"

\* Mutants of the chain of _check_thresholds: "if" for every "elif"; ">" for
\* ">=" in the SYN test; threshold // 2 for threshold // 3 in the HTTP test.
ThresholdBranches_ifs(recent_packets, syn, http, icmp) ==
    (IF recent_packets >= threshold THEN <<"general">> ELSE <<>>)
    \o (IF syn >= threshold \div 2 THEN <<"syn">> ELSE <<>>)
    \o (IF http >= threshold \div 3 THEN <<"http">> ELSE <<>>)
    \o (IF icmp >= threshold \div 4 THEN <<"icmp">> ELSE <<>>)
ThresholdBranches_synStrict(recent_packets, syn, http, icmp) ==
    IF recent_packets >= threshold THEN <<"general">>
    ELSE IF syn > threshold \div 2 THEN <<"syn">>
    ELSE IF http >= threshold \div 3 THEN <<"http">>
    ELSE IF icmp >= threshold \div 4 THEN <<"icmp">>
    ELSE <<>>
ThresholdBranches_httpHalf(recent_packets, syn, http, icmp) ==
    IF recent_packets >= threshold THEN <<"general">>
    ELSE IF syn >= threshold \div 2 THEN <<"syn">>
    ELSE IF http >= threshold \div 2 THEN <<"http">>
    ELSE IF icmp >= threshold \div 4 THEN <<"icmp">>
    ELSE <<>>

\* The if / elif chain of _check_thresholds: the branches whose body runs for
\* a window of recent_packets timestamps and the three counters, in order.
ThresholdBranches(recent_packets, syn, http, icmp) ==
    IF recent_packets >= threshold THEN <<"general">>
    ELSE IF syn >= threshold \div 2 THEN <<"syn">>
    ELSE IF http >= threshold \div 3 THEN <<"http">>
    ELSE IF icmp >= threshold \div 4 THEN <<"icmp">>
    ELSE <<>>

\* ------------------------------------------------------------------ alerts
\* Mutant of the deque: a full deque drops its newest element.
DequeAppend_popRight(dq, x) ==
    IF Len(dq) >= maxlen THEN Append(SubSeq(dq, 1, Len(dq) - 1), x)
    ELSE Append(dq, x)

\* alert_history.append on a deque(maxlen): a full deque drops its oldest.
DequeAppend(dq, x) ==
    IF Len(dq) >= maxlen THEN Append(Tail(dq), x) ELSE Append(dq, x)

\* Mutant of the test of _trigger_alert: "<=" for "<".
AlreadyAlerted_le(ah, src_ip) ==
    \E i \in DOMAIN ah :
        ah[i].src_ip = src_ip /\ now - ah[i].timestamp <= time_window * 2

\* The loop at the head of _trigger_alert: an alert of the same source,
\* younger than 2 * time_window, is still in the history.
AlreadyAlerted(ah, src_ip) ==
    \E i \in DOMAIN ah :
        ah[i].src_ip = src_ip /\ now - ah[i].timestamp < time_window * 2

\* The firewall command of _block_ip; ok is its outcome (returncode == 0; an
\* exception of Popen counts as a failure).
Command(ip, ok) == [ip |-> ip, timestamp |-> now, ok |-> ok]
\* Mutant of the early return of _block_ip: the command is always run.
BlockRuns_always(blocked, ip) == TRUE

\* _block_ip returns before its command for an ip that is blocked already,
\* _unblock_ip for an ip that is not blocked.
BlockRuns(blocked, ip) == ip \notin blocked
UnblockRuns(blocked, ip) == ip \in blocked

\* Mutant of _block_ip: the ip is added whatever the command's outcome.
_block_ip_always(blocked, ip, ok) == blocked \cup {ip}

\* _block_ip; ok is the outcome of the firewall command (returncode == 0).
_block_ip(blocked, ip, ok) ==
    IF ip \in blocked THEN blocked
    ELSE IF ok THEN blocked \cup {ip}
    ELSE blocked

\* _unblock_ip
_unblock_ip(blocked, ip, ok) ==
    IF ip \notin blocked THEN blocked
    ELSE IF ok THEN blocked \ {ip}
    ELSE blocked

\* api_attack_type = attack_type.lower().replace(' ', '')
ApiAttackType(attack_type) ==
    CASE attack_type = "SYN flood" -> "synflood"
      [] attack_type = "HTTP flood" -> "httpflood"
      [] attack_type = "ICMP flood" -> "icmpflood"
      [] attack_type = "General DoS" -> "generaldos"
\* The request of _report_to_api and its outcome (status 201, or not / a
\* timeout / an exception of requests.post).
Report(src_ip, attack_type, packet_count, ok) ==
    [sourceIP |-> src_ip, attackType |-> ApiAttackType(attack_type),
     trafficVolume |-> packet_count, duration |-> time_window, ok |-> ok]

\* The part of the state one packet's handling works on.
\*   branches: the branches of _check_thresholds that ran, calls: the
\*   _trigger_alert calls made, fired: those that appended an alert, seen:
\*   the three counters as the threshold check found them, enf: the
\*   firewall commands run, reports: the requests of _report_to_api,
\*   report_ok: the answer the API gives to a request of this packet.
HandlerState ==
    [pt |-> packet_timestamps, pc |-> packet_counts, syn |-> syn_flood_tracking,
     http |-> http_flood_tracking, icmp |-> icmp_flood_tracking,
     ah |-> alert_history, blocked |-> blocked_ips, log |-> alert_log,
     branches |-> <<>>, calls |-> <<>>, fired |-> 0, seen |-> <<0, 0, 0>>,
     enf |-> block_log, reports |-> <<>>, report_ok |-> TRUE]

\* _block_ip as _trigger_alert calls it, on the handler's state.
BlockStep(s, src_ip, ok) ==
    [s EXCEPT !.blocked = _block_ip(@, src_ip, ok),
              !.enf = IF BlockRuns(s.blocked, src_ip)
                      THEN Append(@, Command(src_ip, ok)) ELSE @]

\* _report_to_api(src_ip, attack_type, packet_count): one request, whose
\* failure is logged and changes nothing.
_report_to_api(s, src_ip, attack_type, packet_count) ==
    [s EXCEPT !.reports =
         Append(@, Report(src_ip, attack_type, packet_count, s.report_ok))]

\* Mutant of the reset: the window of src_ip is emptied as well.
ResetCounters_window(s, src_ip) ==
    [s EXCEPT !.syn = Put(@, src_ip, 0),
              !.http = Put(@, src_ip, 0),
              !.icmp = Put(@, src_ip, 0),
              !.pt = Put(@, src_ip, <<>>)]

\* The counters of src_ip are set to 0 at the end of _trigger_alert.
ResetCounters(s, src_ip) ==
    [s EXCEPT !.syn = Put(@, src_ip, 0),
              !.http = Put(@, src_ip, 0),
              !.icmp = Put(@, src_ip, 0)]

\* Mutant of _trigger_alert: a failed report raises out of _trigger_alert,
\* before the counters are reset.
_trigger_alert_reportRaises(s, src_ip, packet_count, attack_type, ok) ==
    LET call == [attack_type |-> attack_type, packet_count |-> packet_count]
        alert == [timestamp |-> now, src_ip |-> src_ip,
                  packet_count |-> packet_count, attack_type |-> attack_type]
        s1 == [s EXCEPT !.calls = Append(@, call),
                        !.fired = @ + 1,
                        !.ah = DequeAppend(@, alert),
                        !.log = Append(@, alert)]
        s2 == IF block_ips THEN BlockStep(s1, src_ip, ok) ELSE s1
        s3 == IF api_url
              THEN _report_to_api(s2, src_ip, attack_type, packet_count)
              ELSE s2
    IN IF AlreadyAlerted(s.ah, src_ip)
       THEN [s EXCEPT !.calls = Append(@, call)]
       ELSE IF api_url /\ ~s.report_ok THEN s3
       ELSE ResetCounters(s3, src_ip)

\* Mutant of _trigger_alert: a suppressed alert resets the counters too.
_trigger_alert_suppressedResets(s, src_ip, packet_count, attack_type, ok) ==
    LET call == [attack_type |-> attack_type, packet_count |-> packet_count]
        alert == [timestamp |-> now, src_ip |-> src_ip,
                  packet_count |-> packet_count, attack_type |-> attack_type]
        s1 == [s EXCEPT !.calls = Append(@, call),
                        !.fired = @ + 1,
                        !.ah = DequeAppend(@, alert),
                        !.log = Append(@, alert)]
        s2 == IF block_ips THEN BlockStep(s1, src_ip, ok) ELSE s1
        s3 == IF api_url
              THEN _report_to_api(s2, src_ip, attack_type, packet_count)
              ELSE s2
    IN IF AlreadyAlerted(s.ah, src_ip)
       THEN ResetCounters([s EXCEPT !.calls = Append(@, call)], src_ip)
       ELSE ResetCounters(s3, src_ip)

\* _trigger_alert(src_ip, packet_count, attack_type)
_trigger_alert(s, src_ip, packet_count, attack_type, ok) ==
    LET call == [attack_type |-> attack_type, packet_count |-> packet_count]
        alert == [timestamp |-> now, src_ip |-> src_ip,
                  packet_count |-> packet_count, attack_type |-> attack_type]
        s1 == [s EXCEPT !.calls = Append(@, call),
                        !.fired = @ + 1,
                        !.ah = DequeAppend(@, alert),
                        !.log = Append(@, alert)]
        s2 == IF block_ips THEN BlockStep(s1, src_ip, ok) ELSE s1
        s3 == IF api_url
              THEN _report_to_api(s2, src_ip, attack_type, packet_count)
              ELSE s2
    IN IF AlreadyAlerted(s.ah, src_ip)
       THEN [s EXCEPT !.calls = Append(@, call)]
       ELSE ResetCounters(s3, src_ip)

\* Mutant of the general branch: the evidence count is the counter of the
\* label.
RunBranch_counter(s, src_ip, branch, recent_packets, ok) ==
    LET s1 == [s EXCEPT !.branches = Append(@, branch)]
    IN CASE branch = "general" ->
               LET label == _determine_attack_type(Get(s.syn, src_ip),
                                Get(s.http, src_ip), Get(s.icmp, src_ip))
               IN _trigger_alert(s1, src_ip,
                      CASE label = "SYN flood" -> Get(s.syn, src_ip)
                        [] label = "HTTP flood" -> Get(s.http, src_ip)
                        [] label = "ICMP flood" -> Get(s.icmp, src_ip)
                        [] OTHER -> recent_packets,
                      label, ok)
         [] branch = "syn" ->
               _trigger_alert(s1, src_ip, Get(s.syn, src_ip), "SYN flood", ok)
         [] branch = "http" ->
               _trigger_alert(s1, src_ip, Get(s.http, src_ip), "HTTP flood", ok)
         [] branch = "icmp" ->
               _trigger_alert(s1, src_ip, Get(s.icmp, src_ip), "ICMP flood", ok)

\* The body of one taken branch of _check_thresholds.
RunBranch(s, src_ip, branch, recent_packets, ok) ==
    LET s1 == [s EXCEPT !.branches = Append(@, branch)]
    IN CASE branch = "general" ->
               _trigger_alert(s1, src_ip, recent_packets,
                   _determine_attack_type(Get(s.syn, src_ip), Get(s.http, src_ip),
                                          Get(s.icmp, src_ip)), ok)
         [] branch = "syn" ->
               _trigger_alert(s1, src_ip, Get(s.syn, src_ip), "SYN flood", ok)
         [] branch = "http" ->
               _trigger_alert(s1, src_ip, Get(s.http, src_ip), "HTTP flood", ok)
         [] branch = "icmp" ->
               _trigger_alert(s1, src_ip, Get(s.icmp, src_ip), "ICMP flood", ok)

RECURSIVE RunBranches(_, _, _, _, _)
RunBranches(s, src_ip, branches, recent_packets, ok) ==
    IF branches = <<>> THEN s
    ELSE RunBranches(RunBranch(s, src_ip, Head(branches), recent_packets, ok),
                     src_ip, Tail(branches), recent_packets, ok)

\* _check_thresholds(src_ip, current_time).  Evaluating a condition of the
\* chain reads a defaultdict and so inserts a missing key: syn_flood_tracking
\* is always read, http_flood_tracking unless the SYN branch ran, and
\* icmp_flood_tracking unless the SYN or the HTTP branch ran.
_check_thresholds(s, src_ip, current_time, ok) ==
    LET pt1 == _clean_old_timestamps(s.pt, src_ip, current_time)
        recent_packets == Len(GetList(pt1, src_ip))
        branches == ThresholdBranches(recent_packets, Get(s.syn, src_ip),
                                      Get(s.http, src_ip), Get(s.icmp, src_ip))
        first == IF branches = <<>> THEN "none" ELSE Head(branches)
        s1 == [s EXCEPT
                 !.pt = pt1,
                 !.seen = <<Get(s.syn, src_ip), Get(s.http, src_ip),
                            Get(s.icmp, src_ip)>>,
                 !.syn = Touch(@, src_ip),
                 !.http = IF first = "syn" THEN @ ELSE Touch(@, src_ip),
                 !.icmp = IF first \in {"syn", "http"} THEN @ ELSE Touch(@, src_ip)]
    IN RunBranches(s1, src_ip, branches, recent_packets, ok)

\* _check_attack_signatures(packet, src_ip): three independent tests.
_check_attack_signatures(s, packet, src_ip) ==
    [s EXCEPT
       !.syn = IF IsSyn(packet) THEN Put(@, src_ip, Get(@, src_ip) + 1) ELSE @,
       !.http = IF IsHttp(packet) THEN Put(@, src_ip, Get(@, src_ip) + 1) ELSE @,
       !.icmp = IF IsIcmp(packet) THEN Put(@, src_ip, Get(@, src_ip) + 1) ELSE @]

\* Lines 142-153 of _process_packets for a packet that passed both filters.
RecordPacket(s, packet, src_ip, ok) ==
    LET s1 == [s EXCEPT
                 !.pt = Put(@, src_ip, Append(GetList(@, src_ip), now)),
                 !.pc = Put(@, src_ip, Get(@, src_ip) + 1)]
        s2 == _check_attack_signatures(s1, packet, src_ip)
    IN _check_thresholds(s2, src_ip, now, ok)

\* ---------------------------------------------------------------- actions
Idle == [step |-> "idle", ip |-> "none", branches |-> <<>>, calls |-> <<>>,
         fired |-> 0, recent |-> 0, seen |-> <<0, 0, 0>>, reports |-> <<>>]

\* No thread is inside a statement-level step.
NoLocal == [ip |-> "none"]

InitState ==
    /\ running = TRUE
    /\ now = 0
    /\ packet_queue = <<>>
    /\ packet_timestamps = EmptyDict
    /\ packet_counts = EmptyDict
    /\ syn_flood_tracking = EmptyDict
    /\ http_flood_tracking = EmptyDict
    /\ icmp_flood_tracking = EmptyDict
    /\ blocked_ips = {}
    /\ alert_history = <<>>
    /\ proc_pc = "get"
    /\ maint_pc = "run"
    /\ alert_log = <<>>
    /\ processed = [ip \in Sources |-> <<>>]
    /\ last = Idle
    /\ block_log = <<>>
    /\ unblock_log = <<>>
    /\ stop_raised = FALSE
    /\ proc_local = NoLocal
    /\ maint_local = NoLocal

\* DoSDetector(threshold, time_window, block_ips), PROCESS_PRIVATE_IPS = False
Init ==
    /\ threshold \in Thresholds
    /\ time_window \in TimeWindows
    /\ block_ips \in BOOLEAN
    /\ api_url = FALSE
    /\ maxlen = AlertHistoryMaxlen
    /\ PROCESS_PRIVATE_IPS = FALSE
    /\ InitState

\* The packets recorded so far, over all sources.
RECURSIVE TotalLen(_, _)
TotalLen(f, ks) ==
    IF ks = {} THEN 0
    ELSE LET k == CHOOSE x \in ks : TRUE IN Len(f[k]) + TotalLen(f, ks \ {k})
Recorded == TotalLen(processed, DOMAIN processed)

\* Mutant of the queue: put() inserts at the head (a stack).
QueuePut_front(q, packet) == <<packet>> \o q

\* queue.Queue(): put() appends at the tail, get() takes the head.  The
\* queue has no maxsize, so put() never blocks and never raises queue.Full.
QueuePut(q, packet) == Append(q, packet)
QueueGet(q) == Head(q)
QueueRest(q) == Tail(q)

\* Mutant of the capture callback: no test of self.running.
SubmitFrom_always(P, maxp) ==
    /\ Recorded + Len(packet_queue) < maxp
    /\ \E packet \in P :
         IF packet.ip
         THEN packet_queue' = QueuePut(packet_queue, packet)
         ELSE UNCHANGED packet_queue
    /\ last' = Idle
    /\ UNCHANGED <<config, locals, running, now, stores, blocked_ips, alert_history,
                   proc_pc, maint_pc, alert_log, processed, block_log,
                   unblock_log, stop_raised>>

\* _packet_handler(packet), the capture callback.  The environment delivers
\* a packet of P while fewer than maxp packets are recorded or waiting.
SubmitFrom(P, maxp) ==
    /\ Recorded + Len(packet_queue) < maxp
    /\ \E packet \in P :
         IF running /\ packet.ip
         THEN packet_queue' = QueuePut(packet_queue, packet)
         ELSE UNCHANGED packet_queue
    /\ last' = Idle
    /\ UNCHANGED <<config, locals, running, now, stores, blocked_ips, alert_history,
                   proc_pc, maint_pc, alert_log, processed, block_log,
                   unblock_log, stop_raised>>

\* Mutants of the two loop tests: the loop never ends.
ProcTest_forever == "get"
MaintTest_forever == "run"

\* "while self.running" at the head of _process_packets and of
\* _maintenance_task: where the thread is after the test.
ProcTest == IF running THEN "get" ELSE "done"
MaintTest == IF running THEN "run" ELSE "done"

\* The Processor thread waits in packet_queue.get(timeout=1), having found
\* self.running true at the head of its loop ("get"), or has left the loop
\* ("done").  Here get() timed out on the empty queue (queue.Empty: continue),
\* or stop() ran before the loop's test: the test "while self.running" is
\* made again.
ProcLoop ==
    /\ proc_pc = "get"
    /\ packet_queue = <<>> \/ ~running
    /\ proc_pc' = ProcTest
    /\ last' = Idle
    /\ UNCHANGED <<config, locals, running, now, packet_queue, stores, blocked_ips,
                   alert_history, maint_pc, alert_log, processed, block_log,
                   unblock_log, stop_raised>>

\* Mutants of the two filters of _process_packets: no filter.
SkipPrivate_never(src_ip) == FALSE
SkipBlocked_never(src_ip) == FALSE

\* The answers the API can give: none is asked for without api_url.
ReportOutcomes == IF api_url THEN BOOLEAN ELSE {TRUE}

\* The two filters of _process_packets ("continue").
SkipPrivate(src_ip) == _is_private_ip(src_ip) /\ ~PROCESS_PRIVATE_IPS
SkipBlocked(src_ip) == src_ip \in blocked_ips

\* One iteration of _process_packets that gets a packet, up to the next test
\* of "while self.running".  The firewall command of _block_ip succeeds or
\* fails, and so does the request of _report_to_api.
ProcHandle ==
    /\ proc_pc = "get"
    /\ packet_queue # <<>>
    /\ LET packet == QueueGet(packet_queue)
           src_ip == packet.src
       IN /\ packet_queue' = QueueRest(packet_queue)
          /\ proc_pc' = ProcTest
          /\ IF SkipPrivate(src_ip)
             THEN /\ last' = [Idle EXCEPT !.step = "private", !.ip = src_ip]
                  /\ UNCHANGED <<stores, blocked_ips, alert_history, alert_log,
                                 processed, block_log>>
             ELSE IF SkipBlocked(src_ip)
             THEN /\ last' = [Idle EXCEPT !.step = "blocked", !.ip = src_ip]
                  /\ UNCHANGED <<stores, blocked_ips, alert_history, alert_log,
                                 processed, block_log>>
             ELSE \E ok \in BOOLEAN, report_ok \in ReportOutcomes :
                    \E s \in {RecordPacket(
                                 [HandlerState EXCEPT !.report_ok = report_ok],
                                 packet, src_ip, ok)} :
                       /\ packet_timestamps' = s.pt
                       /\ packet_counts' = s.pc
                       /\ syn_flood_tracking' = s.syn
                       /\ http_flood_tracking' = s.http
                       /\ icmp_flood_tracking' = s.icmp
                       /\ alert_history' = s.ah
                       /\ blocked_ips' = s.blocked
                       /\ alert_log' = s.log
                       /\ block_log' = s.enf
                       /\ processed' = [processed EXCEPT ![src_ip] = Append(@, now)]
                       /\ last' = [step |-> "handled", ip |-> src_ip,
                                   branches |-> s.branches,
                                   calls |-> s.calls, fired |-> s.fired,
                                   recent |-> Len(s.pt[src_ip]),
                                   seen |-> s.seen, reports |-> s.reports]
    /\ UNCHANGED <<config, locals, running, now, maint_pc, unblock_log, stop_raised>>

\* The Maintenance thread is in its loop ("run": in time.sleep(5), or past
\* the test of self.running and about to sweep) or has left it ("done").
\* Here it wakes up after stop() and leaves the loop.
MaintLoop ==
    /\ maint_pc = "run"
    /\ ~running
    /\ maint_pc' = "done"
    /\ last' = Idle
    /\ UNCHANGED <<config, locals, running, now, packet_queue, stores, blocked_ips,
                   alert_history, proc_pc, alert_log, processed, block_log,
                   unblock_log, stop_raised>>

\* Mutant of the sweep: the SYN counter of an evicted source is left behind.
SweepOne_keepSyn(st, ip, current_time) ==
    LET pt1 == _clean_old_timestamps(st[1], ip, current_time)
    IN IF Len(pt1[ip]) = 0
       THEN <<Pop(pt1, ip), Pop(st[2], ip), st[3], Pop(st[4], ip), Pop(st[5], ip)>>
       ELSE <<pt1, st[2], st[3], st[4], st[5]>>

\* Mutant of the sweep: the signature counters are windowed, a prune that
\* drops a timestamp of a source that stays tracked zeroes its counters.
SweepOne_windowed(st, ip, current_time) ==
    LET pt1 == _clean_old_timestamps(st[1], ip, current_time)
    IN IF Len(pt1[ip]) = 0
       THEN <<Pop(pt1, ip), Pop(st[2], ip), Pop(st[3], ip), Pop(st[4], ip),
              Pop(st[5], ip)>>
       ELSE IF Len(pt1[ip]) < Len(st[1][ip])
       THEN <<pt1, st[2], Put(st[3], ip, 0), Put(st[4], ip, 0), Put(st[5], ip, 0)>>
       ELSE <<pt1, st[2], st[3], st[4], st[5]>>

\* The body of the for loop of _maintenance_task for one ip, on the five
\* stores <<timestamps, counts, syn, http, icmp>>.
SweepOne(st, ip, current_time) ==
    LET pt1 == _clean_old_timestamps(st[1], ip, current_time)
    IN IF Len(pt1[ip]) = 0
       THEN <<Pop(pt1, ip), Pop(st[2], ip), Pop(st[3], ip), Pop(st[4], ip),
              Pop(st[5], ip)>>
       ELSE <<pt1, st[2], st[3], st[4], st[5]>>

\* for ip in list(self.packet_timestamps.keys()): the keys in some order
RECURSIVE SweepAll(_, _, _)
SweepAll(st, ips, current_time) ==
    IF ips = {} THEN st
    ELSE LET ip == CHOOSE x \in ips : TRUE
         IN SweepAll(SweepOne(st, ip, current_time), ips \ {ip}, current_time)

\* One sweep of _maintenance_task, then time.sleep(5) and the next test of
\* "while self.running".
MaintSweep ==
    /\ maint_pc = "run"
    /\ \E st \in {SweepAll(stores, DOMAIN packet_timestamps, now)} :
          /\ packet_timestamps' = st[1]
          /\ packet_counts' = st[2]
          /\ syn_flood_tracking' = st[3]
          /\ http_flood_tracking' = st[4]
          /\ icmp_flood_tracking' = st[5]
    /\ maint_pc' = MaintTest
    /\ last' = [Idle EXCEPT !.step = "sweep"]
    /\ UNCHANGED <<config, locals, running, now, packet_queue, blocked_ips,
                   alert_history, proc_pc, alert_log, processed, block_log,
                   unblock_log, stop_raised>>

\* The clock advances.
TickTo(maxt) ==
    /\ now < maxt
    /\ now' = now + 1
    /\ last' = Idle
    /\ UNCHANGED <<config, locals, running, packet_queue, stores, blocked_ips,
                   alert_history, proc_pc, maint_pc, alert_log,
                   processed, block_log, unblock_log, stop_raised>>

\* The orders in which "for ip in self.blocked_ips" can visit the set.
Orders(S) ==
    {f \in [1..Cardinality(S) -> S] : \A i, j \in DOMAIN f : i # j => f[i] # f[j]}

\* stop(): the loop "for ip in self.blocked_ips: self._unblock_ip(ip)" runs
\* over the set that _unblock_ip removes from.  An unblock that fails leaves
\* the set alone and the loop goes on; the first unblock that succeeds
\* removes its ip, and the loop's next step raises RuntimeError (set changed
\* size during iteration), which ends stop().  So either every attempt
\* failed (k = 0), or the k-th attempt was the first to succeed and the last
\* to be made.
Stop ==
    /\ running
    /\ running' = FALSE
    /\ IF block_ips /\ blocked_ips # {}
       THEN \E order \in Orders(blocked_ips), k \in 0..Cardinality(blocked_ips) :
              LET n == IF k = 0 THEN Len(order) ELSE k
                  attempts == [i \in 1..n |-> [ip |-> order[i], ok |-> i = k]]
              IN /\ blocked_ips' = IF k = 0 THEN blocked_ips
                                    ELSE _unblock_ip(blocked_ips, order[k], TRUE)
                 /\ unblock_log' = unblock_log \o attempts
                 /\ stop_raised' = (k # 0)
       ELSE UNCHANGED <<blocked_ips, unblock_log, stop_raised>>
    /\ last' = Idle
    /\ UNCHANGED <<config, locals, now, packet_queue, stores, alert_history, proc_pc,
                   maint_pc, alert_log, processed, block_log>>

\* The detector with its environment: packets of P are delivered, at most
\* maxp of them are recorded, and the clock runs up to maxt.
NextWith(P, maxp, maxt) ==
    \/ SubmitFrom(P, maxp)
    \/ ProcLoop
    \/ ProcHandle
    \/ MaintLoop
    \/ MaintSweep
    \/ TickTo(maxt)
    \/ Stop

Next == NextWith(Packets, MaxPackets, MaxTime)

Spec == Init /\ [][Next]_vars

\* ------------------------------------------------------- burst scenarios
\* threshold = 10, window = 10 s, SYN packets of one unseen source within
\* one second.
InitSyn ==
    /\ threshold = 10
    /\ time_window = 10
    /\ block_ips \in BOOLEAN
    /\ api_url = FALSE
    /\ maxlen = AlertHistoryMaxlen
    /\ PROCESS_PRIVATE_IPS = FALSE
    /\ InitState
NextSyn == NextWith({SynPacket("a")}, MaxSynPackets, BurstSeconds)
SpecSyn == InitSyn /\ [][NextSyn]_vars

\* threshold = 15, HTTP packets of one unseen source and nothing else.
InitHttp ==
    /\ threshold = 15
    /\ time_window \in TimeWindows
    /\ block_ips \in BOOLEAN
    /\ api_url = FALSE
    /\ maxlen = AlertHistoryMaxlen
    /\ PROCESS_PRIVATE_IPS = FALSE
    /\ InitState
NextHttp == NextWith({HttpPacket("a")}, MaxHttpPackets, MaxTime)
SpecHttp == InitHttp /\ [][NextHttp]_vars

\* ---------------------------------------------------------------- failures
\* Mutant of the handler "except Exception" of _process_packets: the
\* exception ends the thread.
ProcExcept_dies == "done"

\* "except Exception as e: logger.error(...)" inside the loops: the exception
\* is logged and the loop goes on with its test (Maintenance after
\* time.sleep(5)).
ProcExcept == ProcTest
MaintExcept == MaintTest

\* Where the handling of a packet can raise: extracting the source (line
\* 132, nothing is recorded yet), inside _check_attack_signatures (caught
\* there: no counter is incremented, the threshold check still runs), inside
\* _check_thresholds (caught there: no branch runs).
FailStages == {"extract", "classify", "check"}
FailedPacket(s, packet, src_ip, stage, ok) ==
    LET s1 == [s EXCEPT
                 !.pt = Put(@, src_ip, Append(GetList(@, src_ip), now)),
                 !.pc = Put(@, src_ip, Get(@, src_ip) + 1)]
    IN CASE stage = "extract" -> s
         [] stage = "classify" -> _check_thresholds(s1, src_ip, now, ok)
         [] stage = "check" -> _check_attack_signatures(s1, packet, src_ip)

\* One iteration of _process_packets in which an exception is raised.
ProcFail ==
    /\ proc_pc = "get"
    /\ packet_queue # <<>>
    /\ ~SkipPrivate(QueueGet(packet_queue).src)
    /\ ~SkipBlocked(QueueGet(packet_queue).src)
    /\ LET packet == QueueGet(packet_queue)
           src_ip == packet.src
       IN /\ packet_queue' = QueueRest(packet_queue)
          /\ proc_pc' = ProcExcept
          /\ \E stage \in FailStages, ok \in BOOLEAN :
               \E s \in {FailedPacket(HandlerState, packet, src_ip, stage, ok)} :
                  /\ packet_timestamps' = s.pt
                  /\ packet_counts' = s.pc
                  /\ syn_flood_tracking' = s.syn
                  /\ http_flood_tracking' = s.http
                  /\ icmp_flood_tracking' = s.icmp
                  /\ alert_history' = s.ah
                  /\ blocked_ips' = s.blocked
                  /\ alert_log' = s.log
                  /\ block_log' = s.enf
                  /\ processed' = IF stage = "extract" THEN processed
                                  ELSE [processed EXCEPT ![src_ip] = Append(@, now)]
                  /\ last' = [Idle EXCEPT !.step = "failed", !.ip = src_ip,
                                          !.branches = s.branches,
                                          !.calls = s.calls, !.fired = s.fired]
    /\ UNCHANGED <<config, locals, running, now, maint_pc, unblock_log, stop_raised>>

\* One sweep of _maintenance_task that raises after the ips of "swept" have
\* been dealt with.
MaintFail ==
    /\ maint_pc = "run"
    /\ \E swept \in SUBSET (DOMAIN packet_timestamps) :
         \E st \in {SweepAll(stores, swept, now)} :
            /\ packet_timestamps' = st[1]
            /\ packet_counts' = st[2]
            /\ syn_flood_tracking' = st[3]
            /\ http_flood_tracking' = st[4]
            /\ icmp_flood_tracking' = st[5]
    /\ maint_pc' = MaintExcept
    /\ last' = [Idle EXCEPT !.step = "sweepfailed"]
    /\ UNCHANGED <<config, locals, running, now, packet_queue, blocked_ips,
                   alert_history, proc_pc, alert_log, processed, block_log,
                   unblock_log, stop_raised>>

FailPackets == {SynPacket("a"), IcmpPacket("b")}
NextFail ==
    \/ NextWith(FailPackets, MaxFailPackets, MaxFailTime)
    \/ ProcFail
    \/ MaintFail
SpecFail == Init /\ [][NextFail]_vars

\* Shutdown under fair scheduling: get(timeout=1) and time.sleep(5) return and
\* the thread is scheduled to make its loop test.
LivePackets == {UdpPacket("a"), IcmpPacket("b")}
NextLive == NextWith(LivePackets, MaxLivePackets, MaxLiveTime)
SpecLive ==
    /\ Init
    /\ [][NextLive]_vars
    /\ WF_vars(ProcLoop)
    /\ WF_vars(MaintLoop)

\* Packets of a private source, with either setting of --private.
PrivatePackets == {SynPacket("p"), IcmpPacket("p"), UdpPacket("a")}
InitPrivate ==
    /\ threshold \in Thresholds
    /\ time_window \in TimeWindows
    /\ block_ips = FALSE
    /\ api_url = FALSE
    /\ maxlen = AlertHistoryMaxlen
    /\ PROCESS_PRIVATE_IPS \in BOOLEAN
    /\ InitState
NextPrivate == NextWith(PrivatePackets, MaxPrivatePackets, MaxTime)
SpecPrivate == InitPrivate /\ [][NextPrivate]_vars

\* ------------------------------------------- function-level specifications
\* The sequence of n copies of x.
Repeat(x, n) == [i \in 1..n |-> x]
NonDecreasing(w) == \A i \in 1..(Len(w) - 1) : w[i] <= w[i + 1]
YoungAlert == [timestamp |-> 0, src_ip |-> "a", packet_count |-> 1,
               attack_type |-> "General DoS"]

\* The threshold check on every window length, triple of counters and
\* threshold: the Processor handles one packet without signature of source a,
\* whose record holds n timestamps and the drawn counters (no record at all
\* for n = 0), with or without an alert of a in the history.
InitThreshold ==
    /\ threshold \in 0..MaxThreshold
    /\ time_window = 1
    /\ block_ips = FALSE
    /\ api_url = FALSE
    /\ maxlen = AlertHistoryMaxlen
    /\ PROCESS_PRIVATE_IPS = FALSE
    /\ running = TRUE
    /\ now = 0
    /\ packet_queue = <<UdpPacket("a")>>
    /\ \E n \in 0..(MaxWindowLen - 1) :
         IF n = 0
         THEN /\ packet_timestamps = EmptyDict
              /\ packet_counts = EmptyDict
              /\ syn_flood_tracking = EmptyDict
              /\ http_flood_tracking = EmptyDict
              /\ icmp_flood_tracking = EmptyDict
              /\ processed = [ip \in Sources |-> <<>>]
         ELSE /\ packet_timestamps = [ip \in {"a"} |-> Repeat(0, n)]
              /\ packet_counts = [ip \in {"a"} |-> n]
              /\ \E c \in 0..MaxCounter : syn_flood_tracking = [ip \in {"a"} |-> c]
              /\ \E c \in 0..MaxCounter : http_flood_tracking = [ip \in {"a"} |-> c]
              /\ \E c \in 0..MaxCounter : icmp_flood_tracking = [ip \in {"a"} |-> c]
              /\ processed = [ip \in Sources |-> IF ip = "a" THEN Repeat(0, n) ELSE <<>>]
    /\ blocked_ips = {}
    /\ \E alerted \in BOOLEAN :
         /\ alert_history = IF alerted THEN <<YoungAlert>> ELSE <<>>
         /\ alert_log = alert_history
    /\ proc_pc = "get"
    /\ maint_pc = "run"
    /\ last = Idle
    /\ block_log = <<>>
    /\ unblock_log = <<>>
    /\ stop_raised = FALSE
    /\ proc_local = NoLocal
    /\ maint_local = NoLocal
SpecThreshold == InitThreshold /\ [][ProcHandle]_vars

\* _clean_old_timestamps applied once to a drawn window of source a (or to
\* source b, which has no record), at a drawn time, for a drawn time_window.
InitPrune ==
    /\ threshold = 1
    /\ time_window \in {1, 2}
    /\ block_ips = FALSE
    /\ api_url = FALSE
    /\ maxlen = AlertHistoryMaxlen
    /\ PROCESS_PRIVATE_IPS = FALSE
    /\ running = TRUE
    /\ now \in 0..MaxPruneTime
    /\ packet_queue = <<>>
    /\ \E n \in 0..MaxPruneLen :
         \E w \in [1..n -> 0..now] :
            /\ NonDecreasing(w)
            /\ packet_timestamps = [ip \in {"a"} |-> w]
            /\ packet_counts = [ip \in {"a"} |-> n]
            /\ processed = [ip \in Sources |-> IF ip = "a" THEN w ELSE <<>>]
    /\ syn_flood_tracking = EmptyDict
    /\ http_flood_tracking = EmptyDict
    /\ icmp_flood_tracking = EmptyDict
    /\ blocked_ips = {}
    /\ alert_history = <<>>
    /\ alert_log = <<>>
    /\ proc_pc = "get"
    /\ maint_pc = "run"
    /\ last = Idle
    /\ block_log = <<>>
    /\ unblock_log = <<>>
    /\ stop_raised = FALSE
    /\ proc_local = NoLocal
    /\ maint_local = NoLocal
CleanStep ==
    /\ last.step = "idle"
    /\ \E ip \in {"a", "b"} :
         /\ packet_timestamps' = _clean_old_timestamps(packet_timestamps, ip, now)
         /\ last' = [Idle EXCEPT !.step = "cleaned", !.ip = ip]
    /\ UNCHANGED <<config, locals, running, now, packet_queue, packet_counts,
                   syn_flood_tracking, http_flood_tracking, icmp_flood_tracking,
                   blocked_ips, alert_history, proc_pc, maint_pc, alert_log,
                   processed, block_log, unblock_log, stop_raised>>
SpecPrune == InitPrune /\ [][CleanStep]_vars

\* ------------------------------------------------------------------ claims
\* The alerts of source ip among the alerts ever appended.
AlertsOf(log, ip) == {i \in DOMAIN log : log[i].src_ip = ip}
\* The Processor has just recorded a packet of ip and called _trigger_alert.
Qualified(ip) ==
    last.step = "handled" /\ last.ip = ip /\ last.branches # <<>>

\* C1 (as claimed): once an alert of a source is appended at time t, no
\* further alert of that source is appended at a time t' with
\* t' - t < 2 * time_window, whatever alerts of other sources come between.
C1_DedupSuppression ==
    \A i, j \in DOMAIN alert_log :
        (i < j /\ alert_log[i].src_ip = alert_log[j].src_ip)
            => alert_log[j].timestamp - alert_log[i].timestamp >= 2 * time_window

\* C2: when the Processor has recorded a packet of a source and a branch of
\* the threshold check matched, then either an alert of that source younger
\* than 2 * time_window was already there, or a new alert of the source, with
\* the time of this packet, has been appended to the history.  So if the most
\* recent alert of the source is at least 2 * time_window old (exactly
\* 2 * time_window counts as elapsed), the packet appends a new alert.
C2_RealertAfterDedupWindow ==
    \A ip \in Sources :
        Qualified(ip) =>
            IF last.fired = 0
            THEN \E i \in AlertsOf(alert_log, ip) :
                     now - alert_log[i].timestamp < 2 * time_window
            ELSE /\ alert_log[Len(alert_log)].src_ip = ip
                 /\ alert_log[Len(alert_log)].timestamp = now
                 /\ alert_history # <<>>
                 /\ alert_history[Len(alert_history)] = alert_log[Len(alert_log)]

\* C2 witness: a second alert of a source, exactly 2 * time_window after its
\* first one.
C2_Witness ==
    /\ Qualified("a")
    /\ Len(alert_log) >= 2
    /\ alert_log[Len(alert_log)].src_ip = "a"
    /\ alert_log[Len(alert_log)].timestamp = now
    /\ \E i \in AlertsOf(alert_log, "a") :
           i < Len(alert_log) /\ now - alert_log[i].timestamp = 2 * time_window

\* The alert appended by the packet just handled, on the general-threshold
\* branch (len(window) >= threshold).
GeneralAlert ==
    /\ last.step = "handled"
    /\ last.branches = <<"general">>
    /\ last.fired = 1
\* The counter that goes with a signature label, as the threshold check
\* found it.
SeenCounter(attack_type) ==
    CASE attack_type = "SYN flood" -> last.seen[1]
      [] attack_type = "HTTP flood" -> last.seen[2]
      [] attack_type = "ICMP flood" -> last.seen[3]

\* C7 (as claimed): on the general-threshold path the alert's evidence count
\* is the selected signature's counter when the label is a signature type,
\* and the window length only when the label is General DoS.
C7_EvidenceIsSignatureCounter ==
    GeneralAlert =>
        LET alert == alert_log[Len(alert_log)]
        IN alert.packet_count =
             IF alert.attack_type = "General DoS"
             THEN Len(packet_timestamps[last.ip])
             ELSE SeenCounter(alert.attack_type)

\* C7 (amended): on the general-threshold path the alert's evidence count is
\* the window length, whatever the label.
C7_EvidenceIsWindowLength ==
    GeneralAlert =>
        LET alert == alert_log[Len(alert_log)]
        IN /\ alert.src_ip = last.ip
           /\ alert.packet_count = Len(packet_timestamps[last.ip])
           /\ alert.packet_count >= threshold

\* C7 witness: a signature-labelled alert of the general-threshold path whose
\* evidence count is not the signature's counter.
C7_Witness ==
    /\ GeneralAlert
    /\ alert_log[Len(alert_log)].attack_type = "SYN flood"
    /\ alert_log[Len(alert_log)].packet_count # last.seen[1]

\* C8: when the Processor has finished a packet of a source and every packet
\* of that source recorded so far was recorded within the last time_window
\* seconds, the source's window holds exactly one timestamp per packet.
C8_WindowCountsEveryEvent ==
    \A ip \in Sources :
        (/\ last.step = "handled"
         /\ last.ip = ip
         /\ \A i \in DOMAIN processed[ip] : now - processed[ip][i] <= time_window)
            => /\ ip \in DOMAIN packet_timestamps
               /\ packet_timestamps[ip] = processed[ip]

\* C8 witness: three packets of one source, the oldest exactly time_window
\* old, after an alert has fired and reset the counters.
C8_Witness ==
    /\ last.step = "handled"
    /\ last.ip = "a"
    /\ Len(processed["a"]) = 3
    /\ processed["a"][1] = now - time_window
    /\ AlertsOf(alert_log, "a") # {}
    /\ Len(packet_timestamps["a"]) = 3

\* C10: a Maintenance sweep at time now removes every source whose
\* timestamps are all older than time_window from all five stores, leaves no
\* tracked source with an empty window, and leaves the record and the
\* counters of every other tracked source as they were.
Expired(ip) ==
    /\ ip \in DOMAIN packet_timestamps
    /\ \A i \in DOMAIN packet_timestamps[ip] :
           now - packet_timestamps[ip][i] > time_window
SameEntry(d, e, ip) == (ip \in DOMAIN d <=> ip \in DOMAIN e) /\ Get(d, ip) = Get(e, ip)
C10_SweepEvicts ==
    [][last'.step = "sweep" =>
        \A ip \in Sources :
            /\ Expired(ip) =>
                  /\ ip \notin DOMAIN packet_timestamps'
                  /\ ip \notin DOMAIN packet_counts'
                  /\ ip \notin DOMAIN syn_flood_tracking'
                  /\ ip \notin DOMAIN http_flood_tracking'
                  /\ ip \notin DOMAIN icmp_flood_tracking'
            /\ ip \in DOMAIN packet_timestamps' => packet_timestamps'[ip] # <<>>
            /\ (ip \in DOMAIN packet_timestamps /\ ~Expired(ip)) =>
                  /\ ip \in DOMAIN packet_timestamps'
                  /\ \A i \in DOMAIN packet_timestamps'[ip] :
                         now - packet_timestamps'[ip][i] <= time_window
                  /\ SameEntry(packet_counts, packet_counts', ip)
                  /\ SameEntry(syn_flood_tracking, syn_flood_tracking', ip)
                  /\ SameEntry(http_flood_tracking, http_flood_tracking', ip)
                  /\ SameEntry(icmp_flood_tracking, icmp_flood_tracking', ip)
    ]_vars

\* C10 witness: a sweep has evicted source a, whose counters were present,
\* and kept source b.
C10_Witness ==
    /\ last.step = "sweep"
    /\ processed["a"] # <<>>
    /\ "a" \notin DOMAIN packet_timestamps
    /\ "a" \notin DOMAIN syn_flood_tracking
    /\ "b" \in DOMAIN packet_timestamps

\* The alerts of source a in the history are exactly one, of the given type
\* and evidence count, and no other alert of a was ever appended.
OneAlertOfA(attack_type, packet_count) ==
    /\ Cardinality(AlertsOf(alert_history, "a")) = 1
    /\ Cardinality(AlertsOf(alert_log, "a")) = 1
    /\ \A i \in AlertsOf(alert_history, "a") :
           /\ alert_history[i].attack_type = attack_type
           /\ alert_history[i].packet_count = packet_count

\* C3 (as claimed): threshold 10, window 10 s: after exactly 10 SYN packets
\* of one unseen source within a second the history holds exactly one alert
\* of it, a SYN flood with evidence count 10.
C3_TenSynEvidenceTen ==
    Len(processed["a"]) = 10 => OneAlertOfA("SYN flood", 10)

\* C3 (amended): ... exactly one alert of it, a SYN flood with evidence count
\* 5: the fifth packet takes the SYN branch (syn_count >= threshold // 2),
\* and the alert is there from the fifth packet on; before it there is none.
C3_TenSynEvidenceFive ==
    /\ Len(processed["a"]) = 10 => OneAlertOfA("SYN flood", 5)
    /\ Len(processed["a"]) >= 5 => OneAlertOfA("SYN flood", 5)
    /\ Len(processed["a"]) < 5 => alert_log = <<>>

\* C3 witness: the tenth packet reached the general threshold and its alert
\* was suppressed as a duplicate.
C3_Witness ==
    /\ Len(processed["a"]) = 10
    /\ last.step = "handled"
    /\ last.branches = <<"general">>
    /\ last.calls = <<[attack_type |-> "SYN flood", packet_count |-> 10]>>
    /\ last.fired = 0

\* C4 (as claimed): threshold 15: after exactly 5 HTTP packets of one unseen
\* source the history holds exactly one alert, an HTTP flood with evidence
\* count 5, and no threshold check took the general branch.
C4_FiveHttp ==
    /\ Len(processed["a"]) = 5 => OneAlertOfA("HTTP flood", 5)
    /\ last.step = "handled" => last.branches # <<"general">>

\* C4 (amended): the same, provided Maintenance has not evicted the source's
\* record between the five packets (its cumulative packet count is 5).
C4_FiveHttpNoEviction ==
    /\ (Len(processed["a"]) = 5 /\ Get(packet_counts, "a") = 5)
          => /\ OneAlertOfA("HTTP flood", 5)
             /\ Len(alert_history) = 1
    /\ (last.step = "handled" /\ Len(processed["a"]) <= 5)
          => "general" \notin {last.branches[i] : i \in DOMAIN last.branches}

\* C4 witness: the fifth packet took the HTTP branch and its alert fired.
C4_Witness ==
    /\ Len(processed["a"]) = 5
    /\ last.step = "handled"
    /\ last.branches = <<"http">>
    /\ last.fired = 1
    /\ last.seen = <<0, 5, 0>>

\* The inputs of the threshold check of the step that handles the packet of
\* SpecThreshold (a packet without signature: the counters are those of the
\* state before, the window has one timestamp more).
Max3(x, y, z) == IF x >= y /\ x >= z THEN x ELSE IF y >= z THEN y ELSE z
Call(attack_type, packet_count) ==
    [attack_type |-> attack_type, packet_count |-> packet_count]

\* C5: the threshold check takes exactly the first branch that matches, in
\* the order window length >= threshold, syn_count >= threshold // 2,
\* http_count >= threshold // 3, icmp_count >= threshold // 4, with the
\* branch's counter as evidence, and so calls _trigger_alert at most once.
C5_FirstMatchWins ==
    [][last'.step = "handled" =>
        LET n == Len(GetList(packet_timestamps, "a")) + 1
            syn == Get(syn_flood_tracking, "a")
            http == Get(http_flood_tracking, "a")
            icmp == Get(icmp_flood_tracking, "a")
            t == threshold
            b == last'.branches
            c == last'.calls
        IN /\ Len(b) <= 1
           /\ Len(c) = Len(b)
           /\ last'.fired <= 1
           /\ (b = <<"general">>) <=> (n >= t)
           /\ (b = <<"syn">>) <=> (n < t /\ syn >= t \div 2)
           /\ (b = <<"http">>) <=> (n < t /\ syn < t \div 2 /\ http >= t \div 3)
           /\ (b = <<"icmp">>) <=>
                 (n < t /\ syn < t \div 2 /\ http < t \div 3 /\ icmp >= t \div 4)
           /\ (b = <<>>) <=>
                 (n < t /\ syn < t \div 2 /\ http < t \div 3 /\ icmp < t \div 4)
           /\ b = <<"general">> => c[1].packet_count = n
           /\ b = <<"syn">> => c = <<Call("SYN flood", syn)>>
           /\ b = <<"http">> => c = <<Call("HTTP flood", http)>>
           /\ b = <<"icmp">> => c = <<Call("ICMP flood", icmp)>>
    ]_vars

\* C5 witness: the ICMP branch ran although the SYN counter was the larger
\* one (it was below its own threshold), and the HTTP counter was not zero.
C5_Witness ==
    /\ last.step = "handled"
    /\ last.branches = <<"icmp">>
    /\ last.calls = <<Call("ICMP flood", last.seen[3])>>
    /\ last.seen[1] > last.seen[3]
    /\ last.seen[2] > 0

\* C6: on the general branch the label goes by the maximum of the three
\* counters, ties resolved SYN > HTTP > ICMP: the signature's label if the
\* maximum is strictly greater than threshold // 5, General DoS otherwise.
C6_GeneralPathLabel ==
    [][(last'.step = "handled" /\ last'.branches = <<"general">>) =>
        LET syn == Get(syn_flood_tracking, "a")
            http == Get(http_flood_tracking, "a")
            icmp == Get(icmp_flood_tracking, "a")
            m == Max3(syn, http, icmp)
        IN last'.calls[1].attack_type =
             IF m > threshold \div 5
             THEN IF syn = m THEN "SYN flood"
                  ELSE IF http = m THEN "HTTP flood"
                  ELSE "ICMP flood"
             ELSE "General DoS"
    ]_vars

\* C6 witness: General DoS although the largest counter equals
\* threshold // 5 >= 1; the tie cases have witnesses of their own below.
C6_Witness ==
    /\ last.step = "handled"
    /\ last.branches = <<"general">>
    /\ last.calls[1].attack_type = "General DoS"
    /\ threshold \div 5 >= 1
    /\ Max3(last.seen[1], last.seen[2], last.seen[3]) = threshold \div 5
C6_WitnessTie ==
    /\ last.step = "handled"
    /\ last.branches = <<"general">>
    /\ last.calls[1].attack_type = "HTTP flood"
    /\ last.seen[2] = last.seen[3]
    /\ last.seen[1] < last.seen[2]

\* C9: _clean_old_timestamps keeps exactly the timestamps ts with
\* now - ts <= time_window (one exactly time_window old stays), in their
\* order, and changes no other record.
C9_PrunePostcondition ==
    [][last'.step = "cleaned" =>
        LET ip == last'.ip
        IN IF ip \notin DOMAIN packet_timestamps
           THEN packet_timestamps' = packet_timestamps
           ELSE LET old == packet_timestamps[ip]
                    new == packet_timestamps'[ip]
                    inside == {i \in DOMAIN old : now - old[i] <= time_window}
                IN /\ DOMAIN packet_timestamps' = DOMAIN packet_timestamps
                   /\ \A k \in DOMAIN packet_timestamps \ {ip} :
                          packet_timestamps'[k] = packet_timestamps[k]
                   /\ Len(new) = Cardinality(inside)
                   /\ \A k \in DOMAIN new : now - new[k] <= time_window
                   /\ \E f \in [DOMAIN new -> DOMAIN old] :
                          /\ \A k \in DOMAIN new : new[k] = old[f[k]]
                          /\ \A j, k \in DOMAIN new : j < k => f[j] < f[k]
                          /\ {f[k] : k \in DOMAIN new} = inside
    ]_vars

\* C9 witness: a pruned window that kept a timestamp exactly time_window old
\* and dropped an older one.
C9_Witness ==
    /\ last.step = "cleaned"
    /\ last.ip = "a"
    /\ \E i \in DOMAIN processed["a"] : now - processed["a"][i] > time_window
    /\ packet_timestamps["a"] # <<>>
    /\ packet_timestamps["a"][1] = now - time_window
    /\ Len(packet_timestamps["a"]) < Len(processed["a"])

\* --------------------------------------------------------------- filters
\* C11: a packet whose source is in blocked_ips when the Processor dequeues
\* it changes no tracking store, leads to no threshold check and to no alert
\* (nor to a firewall command), whenever it was put into the queue.
C11_BlockedExcluded ==
    [][(/\ packet_queue # <<>>
        /\ packet_queue' = Tail(packet_queue)
        /\ Head(packet_queue).src \in blocked_ips) =>
          /\ UNCHANGED <<stores, alert_history, alert_log, blocked_ips,
                         processed, block_log>>
          /\ last' = [Idle EXCEPT !.step = "blocked",
                                  !.ip = Head(packet_queue).src]
    ]_vars

\* C11 witness: a packet of source a was dropped because a is blocked; the
\* only packet of a ever recorded is the one whose alert blocked it.
C11_Witness ==
    /\ last.step = "blocked"
    /\ last.ip = "a"
    /\ "a" \in blocked_ips
    /\ Len(processed["a"]) = 1
    /\ Len(packet_timestamps["a"]) = 1
    /\ AlertsOf(alert_log, "a") # {}

\* C12: without --private a packet of a private source never creates or
\* changes an entry of a tracking store, increments no counter and leads to
\* no alert; with --private it is recorded, classified and checked against
\* the thresholds like a packet of any other source.
C12_PrivateFilter ==
    /\ [](~PROCESS_PRIVATE_IPS =>
            \A ip \in PrivateSources :
               /\ ip \notin DOMAIN packet_timestamps
               /\ ip \notin DOMAIN packet_counts
               /\ ip \notin DOMAIN syn_flood_tracking
               /\ ip \notin DOMAIN http_flood_tracking
               /\ ip \notin DOMAIN icmp_flood_tracking
               /\ AlertsOf(alert_log, ip) = {}
               /\ ip \notin blocked_ips)
    /\ [][(/\ packet_queue # <<>>
           /\ packet_queue' = Tail(packet_queue)
           /\ _is_private_ip(Head(packet_queue).src)) =>
             LET packet == Head(packet_queue)
                 ip == packet.src
             IN IF ~PROCESS_PRIVATE_IPS
                THEN /\ UNCHANGED <<stores, alert_history, alert_log,
                                    blocked_ips, processed, block_log>>
                     /\ last' = [Idle EXCEPT !.step = "private", !.ip = ip]
                ELSE /\ last'.step = "handled" /\ last'.ip = ip
                     /\ packet_counts'[ip] = Get(packet_counts, ip) + 1
                     /\ packet_timestamps'[ip] =
                          _clean_old_timestamps(
                              Put(packet_timestamps, ip,
                                  Append(GetList(packet_timestamps, ip), now)),
                              ip, now)[ip]
                     /\ last'.seen =
                          <<Get(syn_flood_tracking, ip) + (IF IsSyn(packet) THEN 1 ELSE 0),
                            Get(http_flood_tracking, ip) + (IF IsHttp(packet) THEN 1 ELSE 0),
                            Get(icmp_flood_tracking, ip) + (IF IsIcmp(packet) THEN 1 ELSE 0)>>
                     /\ last'.branches =
                          ThresholdBranches(Len(packet_timestamps'[ip]),
                              last'.seen[1], last'.seen[2], last'.seen[3])
      ]_vars

\* C12 witness: without --private a packet of the private source p has been
\* dropped, after a packet of the public source a raised an alert.
C12_Witness ==
    /\ ~PROCESS_PRIVATE_IPS
    /\ last.step = "private"
    /\ last.ip = "p"
    /\ alert_log # <<>>
    /\ DOMAIN packet_timestamps = {"a"}
\* ... and with --private a packet of p has raised an alert.
C12_WitnessProcessed ==
    /\ PROCESS_PRIVATE_IPS
    /\ last.step = "handled"
    /\ last.ip = "p"
    /\ last.fired = 1
    /\ last.branches = <<"syn">>

\* ------------------------------------------------------------------ stop
\* The ips for which stop() ran an unblock command in this step.
Unblocked(before, after) ==
    {after[i].ip : i \in (Len(before) + 1)..Len(after)}

\* C13 (as claimed): stop() with block_ips set runs an unblock for every ip
\* that is in blocked_ips when it is called, whatever the outcome of the
\* unblocks before it, and does not raise.
C13_StopUnblocksAll ==
    [][(running /\ ~running' /\ block_ips) =>
          /\ Unblocked(unblock_log, unblock_log') = blocked_ips
          /\ ~stop_raised'
    ]_vars

\* C14 (as claimed): once stop() has returned and the Processor has left its
\* loop, blocked_ips is empty if every unblock command succeeded, also when
\* stop() runs while the Processor handles a packet whose alert blocks.
C14_TeardownLeavesNothingBlocked ==
    (/\ ~running
     /\ ~stop_raised
     /\ proc_pc = "done"
     /\ \A i \in DOMAIN unblock_log : unblock_log[i].ok)
        => blocked_ips = {}

C16_LoopsSurviveFailures ==
    /\ [](running => (proc_pc = "get" /\ maint_pc = "run"))
    /\ [][/\ last'.step = "failed" =>
                /\ proc_pc' = IF running THEN "get" ELSE "done"
                /\ maint_pc' = maint_pc
                /\ running' = running
          /\ last'.step = "sweepfailed" =>
                /\ maint_pc' = IF running THEN "run" ELSE "done"
                /\ proc_pc' = proc_pc
                /\ running' = running
       ]_vars

\* C16 witness: with threshold 1 a packet of a was recorded without an alert
\* (its threshold check raised), and the Processor has then handled the next
\* packet of a, whose alert counts both.
C16_Witness ==
    /\ running
    /\ threshold = 1
    /\ last.step = "handled"
    /\ last.ip = "a"
    /\ last.fired = 1
    /\ Len(processed["a"]) = 2
    /\ Len(alert_log) = 1
    /\ alert_log[1].packet_count = 2

\* ----------------------------------------------------------- enforcement
\* This step ran the firewall command of _block_ip for ip, and it failed.
FailedBlock(ip) ==
    /\ Len(block_log') = Len(block_log) + 1
    /\ block_log'[Len(block_log')].ip = ip
    /\ ~block_log'[Len(block_log')].ok
\* What a failed block leaves behind: the ip is not in blocked_ips, its alert
\* is the newest of the history, its signature counters are 0; and the
\* command was run for an alert that was not suppressed.
AfterFailedBlock(ip) ==
    /\ block_ips
    /\ ip \notin blocked_ips'
    /\ last'.step = "handled" /\ last'.ip = ip /\ last'.fired = 1
    /\ alert_history' # <<>>
    /\ alert_history'[Len(alert_history')].src_ip = ip
    /\ alert_history'[Len(alert_history')].timestamp = now
    /\ syn_flood_tracking'[ip] = 0
    /\ http_flood_tracking'[ip] = 0
    /\ icmp_flood_tracking'[ip] = 0
\* A packet of a source that is not blocked is recorded.
StillProcessed ==
    (/\ packet_queue # <<>>
     /\ packet_queue' = Tail(packet_queue)
     /\ Head(packet_queue).ip
     /\ Head(packet_queue).src \notin blocked_ips)
       => /\ last'.step = "handled"
          /\ processed'[Head(packet_queue).src] =
                Append(processed[Head(packet_queue).src], now)

\* C17 (as claimed): when the block command fails the source is not added to
\* blocked_ips, the alert stays in the history and the counters are reset,
\* later packets of the source are still processed, and a block is attempted
\* only for an alert that is not suppressed: at most once per source in any
\* 2 * time_window.
C17_EnforcementFailure ==
    [][/\ \A ip \in Sources :
            FailedBlock(ip) =>
               /\ AfterFailedBlock(ip)
               /\ \A i \in DOMAIN block_log :
                     block_log[i].ip = ip
                        => now - block_log[i].timestamp >= 2 * time_window
       /\ StillProcessed
    ]_vars

\* C17 without the bound per dedup window: every part of it but "at most one
\* attempt per source per 2 * time_window".
C17_FailedBlockLeavesUnblocked ==
    [][/\ \A ip \in Sources : FailedBlock(ip) => AfterFailedBlock(ip)
       /\ Len(block_log') > Len(block_log) => last'.fired = 1
       /\ StillProcessed
    ]_vars

\* C17 witness: two block commands for source a have failed within
\* 2 * time_window of each other.
C17_Witness ==
    \E i, j \in DOMAIN block_log :
        /\ i < j
        /\ block_log[i].ip = "a" /\ block_log[j].ip = "a"
        /\ ~block_log[i].ok /\ ~block_log[j].ok
        /\ block_log[j].timestamp - block_log[i].timestamp < 2 * time_window

\* C13 witness: stop() has raised after its first successful unblock and an
\* ip that was never attempted is still blocked.
C13_Witness ==
    /\ stop_raised
    /\ Len(unblock_log) = 1
    /\ unblock_log[1].ok
    /\ blocked_ips # {}
    /\ \A ip \in blocked_ips : \A i \in DOMAIN unblock_log : unblock_log[i].ip # ip

\* C14 witness: stop() has returned without any unblock command, both
\* threads have left their loops, and an ip is blocked.
C14_Witness ==
    /\ ~running
    /\ ~stop_raised
    /\ unblock_log = <<>>
    /\ proc_pc = "done"
    /\ maint_pc = "done"
    /\ blocked_ips # {}

\* ------------------------------------------------------------- reporting
\* DoSDetector(threshold, block_ips, api_url): with threshold 1 every
\* recorded packet qualifies on the general path, with threshold 4 the
\* signature branches raise the alerts; alerts, suppressed alerts and
\* reports all occur.
ReportPackets == {SynPacket("a"), IcmpPacket("b")}
InitReport ==
    /\ threshold \in Thresholds
    /\ time_window \in TimeWindows
    /\ block_ips \in BOOLEAN
    /\ api_url \in BOOLEAN
    /\ maxlen = AlertHistoryMaxlen
    /\ PROCESS_PRIVATE_IPS = FALSE
    /\ InitState
NextReport == NextWith(ReportPackets, MaxReportPackets, MaxReportTime)
SpecReport == InitReport /\ [][NextReport]_vars

\* The request _report_to_api sends for an alert.
ReportOf(alert) ==
    [sourceIP |-> alert.src_ip, attackType |-> ApiAttackType(alert.attack_type),
     trafficVolume |-> alert.packet_count, duration |-> time_window]
Request(report) ==
    [sourceIP |-> report.sourceIP, attackType |-> report.attackType,
     trafficVolume |-> report.trafficVolume, duration |-> report.duration]

\* C18: a step that appends an alert sends exactly one request, for that
\* alert, if api_url is set and none if it is not; no other step sends a
\* request (a suppressed alert sends none and nothing is sent again later).
\* Whatever the answer to the request, the alert is the newest entry of
\* alert_history, the source is in blocked_ips exactly if it was there or a
\* firewall command of this step succeeded, and the three counters of the
\* source are 0.
C18_ReportOnceNonFatal ==
    [][/\ Len(last'.reports) = IF api_url THEN last'.fired ELSE 0
       /\ Len(alert_log') = Len(alert_log) + last'.fired
       /\ last'.fired \in {0, 1}
       /\ last'.fired = 1 =>
            LET alert == alert_log'[Len(alert_log')]
                src_ip == alert.src_ip
                cmds == {i \in DOMAIN block_log' : i > Len(block_log)}
            IN /\ last'.step = "handled" /\ last'.ip = src_ip
               /\ api_url => Request(last'.reports[1]) = ReportOf(alert)
               /\ alert_history' # <<>>
               /\ alert_history'[Len(alert_history')] = alert
               /\ src_ip \in blocked_ips' <=>
                    \/ src_ip \in blocked_ips
                    \/ \E i \in cmds : block_log'[i].ip = src_ip /\ block_log'[i].ok
               /\ block_ips /\ src_ip \notin blocked_ips => Cardinality(cmds) = 1
               /\ syn_flood_tracking'[src_ip] = 0
               /\ http_flood_tracking'[src_ip] = 0
               /\ icmp_flood_tracking'[src_ip] = 0
    ]_vars

\* C18 witness: the request for the alert of source a has failed; the alert
\* is in the history, a is blocked by this step's command and a's counters
\* are reset.
C18_Witness ==
    /\ api_url
    /\ block_ips
    /\ last.step = "handled"
    /\ last.ip = "a"
    /\ last.fired = 1
    /\ Len(last.reports) = 1
    /\ ~last.reports[1].ok
    /\ last.reports[1].attackType = "synflood"
    /\ alert_history # <<>>
    /\ alert_history[Len(alert_history)].src_ip = "a"
    /\ "a" \in blocked_ips
    /\ syn_flood_tracking["a"] = 0

\* ---------------------------------------------------------------- history
\* DoSDetector(threshold=1) with a history of capacity MaxHistoryLen: every
\* recorded packet qualifies, and the third alert overflows the history.
HistoryPackets == {SynPacket("a"), IcmpPacket("b")}
InitHistory ==
    /\ threshold = 1
    /\ time_window \in TimeWindows
    /\ block_ips = FALSE
    /\ api_url = FALSE
    /\ maxlen = MaxHistoryLen
    /\ PROCESS_PRIVATE_IPS = FALSE
    /\ InitState
NextHistory == NextWith(HistoryPackets, MaxHistoryPackets, MaxHistoryTime)
SpecHistory == InitHistory /\ [][NextHistory]_vars

\* The newest n elements of a sequence, in their order.
Newest(seq, n) ==
    IF Len(seq) <= n THEN seq ELSE SubSeq(seq, Len(seq) - n + 1, Len(seq))

\* C19: alert_history never holds more than maxlen alerts and is always the
\* newest maxlen alerts ever appended, in arrival order; a step changes it
\* only by appending one alert, and appending to a full history removes
\* exactly the oldest alert: every other alert moves one place to the front.
C19_BoundedFifo ==
    /\ [](/\ Len(alert_history) <= maxlen
          /\ alert_history = Newest(alert_log, maxlen))
    /\ [][IF Len(alert_log') = Len(alert_log)
          THEN alert_history' = alert_history
          ELSE LET n == Len(alert_history)
                   alert == alert_log'[Len(alert_log')]
               IN /\ Len(alert_log') = Len(alert_log) + 1
                  /\ IF n = maxlen
                     THEN /\ Len(alert_history') = n
                          /\ \A i \in 1..(n - 1) :
                               alert_history'[i] = alert_history[i + 1]
                          /\ alert_history'[n] = alert
                     ELSE /\ Len(alert_history') = n + 1
                          /\ \A i \in 1..n : alert_history'[i] = alert_history[i]
                          /\ alert_history'[n + 1] = alert
      ]_vars

\* C19 witness: the history was full when the latest alert was appended; the
\* oldest alert is gone and the other one has moved to the front.
C19_Witness ==
    /\ maxlen >= 2
    /\ Len(alert_log) = maxlen + 1
    /\ Len(alert_history) = maxlen
    /\ last.fired = 1
    /\ alert_history[1] = alert_log[2]
    /\ alert_history[maxlen] = alert_log[maxlen + 1]
    /\ alert_log[1] # alert_log[2]
    /\ \A i \in DOMAIN alert_history : alert_history[i] # alert_log[1]

\* --------------------------------------------------------------- enforcer
\* _block_ip and _unblock_ip called on their own, on any set of blocked ips
\* and with either outcome of the firewall command.  last records the call:
\* whether its command ran and how it ended.
InitEnforcer ==
    /\ threshold \in Thresholds
    /\ time_window \in TimeWindows
    /\ block_ips = TRUE
    /\ api_url = FALSE
    /\ maxlen = AlertHistoryMaxlen
    /\ PROCESS_PRIVATE_IPS = FALSE
    /\ running = TRUE
    /\ now = 0
    /\ packet_queue = <<>>
    /\ packet_timestamps = EmptyDict
    /\ packet_counts = EmptyDict
    /\ syn_flood_tracking = EmptyDict
    /\ http_flood_tracking = EmptyDict
    /\ icmp_flood_tracking = EmptyDict
    /\ blocked_ips \in SUBSET PublicSources
    /\ alert_history = <<>>
    /\ proc_pc = "get"
    /\ maint_pc = "run"
    /\ alert_log = <<>>
    /\ processed = [ip \in Sources |-> <<>>]
    /\ last = Idle
    /\ block_log = <<>>
    /\ unblock_log = <<>>
    /\ stop_raised = FALSE
    /\ proc_local = NoLocal
    /\ maint_local = NoLocal

\* A call may run a command while fewer than MaxEnforcerCommands have run.
CommandsLeft == Len(block_log) + Len(unblock_log) < MaxEnforcerCommands

\* self._block_ip(ip)
BlockCall ==
    \E ip \in PublicSources, ok \in BOOLEAN :
        /\ BlockRuns(blocked_ips, ip) => CommandsLeft
        /\ \E s \in {BlockStep(HandlerState, ip, ok)} :
             /\ blocked_ips' = s.blocked
             /\ block_log' = s.enf
        /\ last' = [step |-> "block", ip |-> ip,
                    ran |-> BlockRuns(blocked_ips, ip), ok |-> ok]
        /\ UNCHANGED <<config, locals, running, now, packet_queue, stores, alert_history,
                       proc_pc, maint_pc, alert_log, processed, unblock_log,
                       stop_raised>>

\* self._unblock_ip(ip)
UnblockCall ==
    \E ip \in PublicSources, ok \in BOOLEAN :
        /\ UnblockRuns(blocked_ips, ip) => CommandsLeft
        /\ blocked_ips' = _unblock_ip(blocked_ips, ip, ok)
        /\ unblock_log' = IF UnblockRuns(blocked_ips, ip)
                          THEN Append(unblock_log, [ip |-> ip, ok |-> ok])
                          ELSE unblock_log
        /\ last' = [step |-> "unblock", ip |-> ip,
                    ran |-> UnblockRuns(blocked_ips, ip), ok |-> ok]
        /\ UNCHANGED <<config, locals, running, now, packet_queue, stores, alert_history,
                       proc_pc, maint_pc, alert_log, processed, block_log,
                       stop_raised>>

NextEnforcer == BlockCall \/ UnblockCall
SpecEnforcer == InitEnforcer /\ [][NextEnforcer]_vars

\* The call of this step is _block_ip(ip) / _unblock_ip(ip).
Blocks(ip) == last'.step = "block" /\ last'.ip = ip
Unblocks(ip) == last'.step = "unblock" /\ last'.ip = ip
\* The call before this step was _block_ip(ip).
JustBlocked(ip) == last.step = "block" /\ last.ip = ip
NoEffect == UNCHANGED <<blocked_ips, block_log, unblock_log>>

\* C20 as claimed: _block_ip of an ip in blocked_ips runs no command and
\* leaves blocked_ips unchanged, the second of two successive _block_ip
\* calls for one ip changes nothing, and _unblock_ip of an ip not in
\* blocked_ips changes nothing.
C20_BlockIdempotent ==
    [][\A ip \in PublicSources :
         /\ Blocks(ip) /\ ip \in blocked_ips => NoEffect
         /\ Blocks(ip) /\ JustBlocked(ip) => NoEffect
         /\ Unblocks(ip) /\ ip \notin blocked_ips => NoEffect
    ]_vars

\* C20: _block_ip of an ip in blocked_ips runs no command and leaves
\* blocked_ips unchanged, and _unblock_ip of an ip not in blocked_ips changes
\* nothing.  The second of two successive _block_ip calls for one ip changes
\* nothing if the first found the ip blocked or its command succeeded; after
\* a failed command the second call runs the command again and adds the ip
\* exactly if it succeeds.
C20_BlockIdempotentOnceBlocked ==
    [][\A ip \in PublicSources :
         /\ Blocks(ip) /\ ip \in blocked_ips => NoEffect
         /\ Blocks(ip) /\ JustBlocked(ip) /\ (~last.ran \/ last.ok) =>
              /\ ip \in blocked_ips
              /\ NoEffect
         /\ Blocks(ip) /\ JustBlocked(ip) /\ last.ran /\ ~last.ok =>
              /\ ip \notin blocked_ips
              /\ block_log' = Append(block_log, Command(ip, last'.ok))
              /\ blocked_ips' = IF last'.ok THEN blocked_ips \cup {ip}
                                ELSE blocked_ips
         /\ Unblocks(ip) /\ ip \notin blocked_ips => NoEffect
    ]_vars

\* C20 witness: source a was blocked by a successful command and
\* _block_ip("a") was called again: one command in all, a is blocked.
C20_Witness ==
    /\ last.step = "block"
    /\ last.ip = "a"
    /\ ~last.ran
    /\ "a" \in blocked_ips
    /\ Len(block_log) = 1
    /\ block_log[1].ip = "a"
    /\ block_log[1].ok
    /\ unblock_log = <<>>

\* The case outside the claim: the second _block_ip("a") ran the command
\* again after the first one's command had failed, and blocked a.
C20_WitnessRetry ==
    /\ last.step = "block"
    /\ last.ip = "a"
    /\ last.ran
    /\ Len(block_log) = 2
    /\ block_log[1].ip = "a" /\ ~block_log[1].ok
    /\ block_log[2].ip = "a" /\ block_log[2].ok
    /\ unblock_log = <<>>
    /\ "a" \in blocked_ips

\* ------------------------------------------------------------------ queue
\* C21: the queue changes only at its two ends.  A step that changes
\* packet_queue either appends one IP packet at its tail, while running is
\* true, or removes its head, and the removed head is the packet the
\* Processor deals with in that step (it skips, records or fails on a packet
\* of that source); the packets in between keep their places, so none is
\* reordered, duplicated or dropped.  The Processor deals with a packet only
\* by taking it from the queue.
C21_StrictFifo ==
    [][/\ packet_queue' # packet_queue =>
            \/ /\ running
               /\ Len(packet_queue') = Len(packet_queue) + 1
               /\ SubSeq(packet_queue', 1, Len(packet_queue)) = packet_queue
               /\ packet_queue'[Len(packet_queue')].ip
               /\ last' = Idle
               /\ UNCHANGED processed
            \/ /\ packet_queue # <<>>
               /\ packet_queue' = Tail(packet_queue)
               /\ last'.step \in {"private", "blocked", "handled", "failed"}
               /\ last'.ip = Head(packet_queue).src
               /\ \A ip \in Sources \ {last'.ip} : processed'[ip] = processed[ip]
       /\ last'.step \in {"private", "blocked", "handled", "failed"} =>
            /\ packet_queue # <<>>
            /\ packet_queue' = Tail(packet_queue)
       /\ processed' # processed =>
            /\ packet_queue # <<>>
            /\ packet_queue' = Tail(packet_queue)
            /\ processed' = [processed EXCEPT ![Head(packet_queue).src] =
                                                 Append(@, now)]
    ]_vars

\* C21 witness: the packet of a went into the queue before the packet of b
\* and both waited there; the Processor has just recorded the packet of b,
\* after that of a.
C21_Witness ==
    /\ last.step = "handled"
    /\ last.ip = "b"
    /\ Len(processed["a"]) = 1
    /\ Len(processed["b"]) = 1
    /\ packet_queue = <<>>
    /\ alert_log # <<>>
    /\ alert_log[1].src_ip = "a"

\* C21, the queue holds several packets at once: put() did not reject.
C21_WitnessQueued ==
    /\ running
    /\ Len(packet_queue) = MaxFailPackets
    /\ packet_queue[1].src # packet_queue[2].src

\* ------------------------------------------------- statement-level steps
\* The Processor and the Maintenance thread share the five stores without a
\* lock.  Here one iteration of each loop is taken apart into the steps
\* between which the other thread can run.
\*   Processor: "get" (take a packet, self.packet_timestamps[src_ip]),
\*     "append" (.append(now)), "count" (packet_counts, signatures), "prune"
\*     (the list comprehension of _clean_old_timestamps), "store" (its
\*     assignment), "len" (recent_packets = len of the window), "check" (the
\*     chain of tests on the counters, the alert).
\*   Maintenance: "run" (sleeping), "compute" (the list comprehension for the
\*     next key), "mstore" (its assignment), "test" (len(...) == 0), "delete"
\*     (del and the four pops).
RacePackets == {SynPacket("a")}
InitRace ==
    /\ threshold = MaxThreshold
    /\ time_window \in TimeWindows
    /\ block_ips = FALSE
    /\ api_url = FALSE
    /\ maxlen = AlertHistoryMaxlen
    /\ PROCESS_PRIVATE_IPS = FALSE
    /\ InitState

\* d[k] on a defaultdict(list): a missing key is inserted with [].
TouchList(d, k) == IF k \in DOMAIN d THEN d ELSE Put(d, k, <<>>)

\* The list self.packet_timestamps[ip] held by the Processor between "get"
\* and "append" is no longer the one in the dict once Maintenance has
\* assigned a new list to the key or deleted it.
Orphans(ip) ==
    IF proc_pc = "append" /\ proc_local.ip = ip
    THEN [proc_local EXCEPT !.stale = TRUE]
    ELSE proc_local

\* packet = self.packet_queue.get(timeout=1); src_ip; the two filters;
\* now = time.time(); self.packet_timestamps[src_ip]
StmtGet ==
    /\ proc_pc = "get"
    /\ running
    /\ packet_queue # <<>>
    /\ LET packet == QueueGet(packet_queue)
           src_ip == packet.src
       IN /\ packet_queue' = QueueRest(packet_queue)
          /\ IF SkipPrivate(src_ip) \/ SkipBlocked(src_ip)
             THEN /\ proc_pc' = ProcTest
                  /\ last' = [Idle EXCEPT !.step = "skipped", !.ip = src_ip]
                  /\ UNCHANGED <<packet_timestamps, proc_local>>
             ELSE /\ proc_pc' = "append"
                  /\ packet_timestamps' = TouchList(packet_timestamps, src_ip)
                  /\ proc_local' = [ip |-> src_ip, packet |-> packet,
                                    now |-> now, stale |-> FALSE, new |-> <<>>,
                                    recent_packets |-> 0]
                  /\ last' = Idle
    /\ UNCHANGED <<config, running, now, packet_counts, syn_flood_tracking,
                   http_flood_tracking, icmp_flood_tracking, blocked_ips,
                   alert_history, maint_pc, alert_log, processed, block_log,
                   unblock_log, stop_raised, maint_local>>

\* .append(now), on the list object the Processor got hold of
StmtAppend ==
    /\ proc_pc = "append"
    /\ packet_timestamps' =
          IF proc_local.stale THEN packet_timestamps
          ELSE Put(packet_timestamps, proc_local.ip,
                   Append(packet_timestamps[proc_local.ip], proc_local.now))
    /\ processed' = [processed EXCEPT ![proc_local.ip] = Append(@, proc_local.now)]
    /\ proc_pc' = "count"
    /\ last' = Idle
    /\ UNCHANGED <<config, locals, running, now, packet_queue, packet_counts,
                   syn_flood_tracking, http_flood_tracking, icmp_flood_tracking,
                   blocked_ips, alert_history, maint_pc, alert_log, block_log,
                   unblock_log, stop_raised>>

\* self.packet_counts[src_ip] += 1; self._check_attack_signatures(packet, src_ip)
StmtCount ==
    /\ proc_pc = "count"
    /\ LET src_ip == proc_local.ip
           s1 == [HandlerState EXCEPT !.pc = Put(@, src_ip, Get(@, src_ip) + 1)]
           s == _check_attack_signatures(s1, proc_local.packet, src_ip)
       IN /\ packet_counts' = s.pc
          /\ syn_flood_tracking' = s.syn
          /\ http_flood_tracking' = s.http
          /\ icmp_flood_tracking' = s.icmp
    /\ proc_pc' = "prune"
    /\ last' = Idle
    /\ UNCHANGED <<config, locals, running, now, packet_queue, packet_timestamps,
                   blocked_ips, alert_history, maint_pc, alert_log, processed,
                   block_log, unblock_log, stop_raised>>

\* _clean_old_timestamps(src_ip, now): the test "src_ip in
\* self.packet_timestamps" and the list comprehension
StmtPrune ==
    /\ proc_pc = "prune"
    /\ LET src_ip == proc_local.ip
       IN IF src_ip \in DOMAIN packet_timestamps
          THEN /\ proc_local' =
                    [proc_local EXCEPT !.new =
                        _clean_old_timestamps(packet_timestamps, src_ip,
                                              proc_local.now)[src_ip]]
               /\ proc_pc' = "store"
          ELSE /\ proc_pc' = "len"
               /\ UNCHANGED proc_local
    /\ last' = Idle
    /\ UNCHANGED <<config, running, now, packet_queue, stores, blocked_ips,
                   alert_history, maint_pc, alert_log, processed, block_log,
                   unblock_log, stop_raised, maint_local>>

\* self.packet_timestamps[src_ip] = [...]
StmtStore ==
    /\ proc_pc = "store"
    /\ packet_timestamps' = Put(packet_timestamps, proc_local.ip, proc_local.new)
    /\ proc_pc' = "len"
    /\ last' = Idle
    /\ UNCHANGED <<config, locals, running, now, packet_queue, packet_counts,
                   syn_flood_tracking, http_flood_tracking, icmp_flood_tracking,
                   blocked_ips, alert_history, maint_pc, alert_log, processed,
                   block_log, unblock_log, stop_raised>>

\* recent_packets = len(self.packet_timestamps[src_ip]): the read of the
\* defaultdict inserts a missing key.
StmtLen ==
    /\ proc_pc = "len"
    /\ \E pt1 \in {TouchList(packet_timestamps, proc_local.ip)} :
         /\ packet_timestamps' = pt1
         /\ proc_local' = [proc_local EXCEPT
                              !.recent_packets = Len(pt1[proc_local.ip])]
    /\ proc_pc' = "check"
    /\ last' = Idle
    /\ UNCHANGED <<config, running, now, packet_queue, packet_counts,
                   syn_flood_tracking, http_flood_tracking, icmp_flood_tracking,
                   blocked_ips, alert_history, maint_pc, alert_log, processed,
                   block_log, unblock_log, stop_raised, maint_local>>

\* The rest of _check_thresholds: the chain of tests on recent_packets and
\* the counters, on the stores as they are now.
CheckAfterPrune(s, src_ip, recent_packets, ok) ==
    LET branches == ThresholdBranches(recent_packets, Get(s.syn, src_ip),
                                      Get(s.http, src_ip), Get(s.icmp, src_ip))
        first == IF branches = <<>> THEN "none" ELSE Head(branches)
        s1 == [s EXCEPT
                 !.seen = <<Get(s.syn, src_ip), Get(s.http, src_ip),
                            Get(s.icmp, src_ip)>>,
                 !.syn = Touch(@, src_ip),
                 !.http = IF first = "syn" THEN @ ELSE Touch(@, src_ip),
                 !.icmp = IF first \in {"syn", "http"} THEN @ ELSE Touch(@, src_ip)]
    IN RunBranches(s1, src_ip, branches, recent_packets, ok)

StmtCheck ==
    /\ proc_pc = "check"
    /\ \E ok \in BOOLEAN :
         \E s \in {CheckAfterPrune(HandlerState, proc_local.ip,
                                    proc_local.recent_packets, ok)} :
            /\ packet_timestamps' = s.pt
            /\ packet_counts' = s.pc
            /\ syn_flood_tracking' = s.syn
            /\ http_flood_tracking' = s.http
            /\ icmp_flood_tracking' = s.icmp
            /\ alert_history' = s.ah
            /\ blocked_ips' = s.blocked
            /\ alert_log' = s.log
            /\ block_log' = s.enf
            /\ last' = [step |-> "handled", ip |-> proc_local.ip,
                        branches |-> s.branches, calls |-> s.calls,
                        fired |-> s.fired,
                        recent |-> proc_local.recent_packets,
                        seen |-> s.seen, reports |-> s.reports]
    /\ proc_pc' = ProcTest
    /\ proc_local' = NoLocal
    /\ UNCHANGED <<config, running, now, packet_queue, maint_pc, processed,
                   unblock_log, stop_raised, maint_local>>

\* The sweep goes on to its next key, or to time.sleep(5).
NextKey(keys) == IF keys = <<>> THEN "run" ELSE "compute"

\* current_time = time.time(); list(self.packet_timestamps.keys())
SweepStart ==
    /\ maint_pc = "run"
    /\ running
    /\ packet_timestamps # EmptyDict
    /\ \E keys \in Orders(DOMAIN packet_timestamps) :
         /\ maint_local' = [ip |-> keys[1], current_time |-> now,
                            keys |-> Tail(keys), new |-> <<>>]
    /\ maint_pc' = "compute"
    /\ last' = Idle
    /\ UNCHANGED <<config, running, now, packet_queue, stores, blocked_ips,
                   alert_history, proc_pc, alert_log, processed, block_log,
                   unblock_log, stop_raised, proc_local>>

\* _clean_old_timestamps(ip, current_time): the test and the list
\* comprehension
SweepCompute ==
    /\ maint_pc = "compute"
    /\ LET ip == maint_local.ip
       IN IF ip \in DOMAIN packet_timestamps
          THEN /\ maint_local' =
                    [maint_local EXCEPT !.new =
                        _clean_old_timestamps(packet_timestamps, ip,
                                              maint_local.current_time)[ip]]
               /\ maint_pc' = "mstore"
          ELSE /\ maint_pc' = "test"
               /\ UNCHANGED maint_local
    /\ last' = Idle
    /\ UNCHANGED <<config, running, now, packet_queue, stores, blocked_ips,
                   alert_history, proc_pc, alert_log, processed, block_log,
                   unblock_log, stop_raised, proc_local>>

\* self.packet_timestamps[ip] = [...]
SweepStore ==
    /\ maint_pc = "mstore"
    /\ packet_timestamps' = Put(packet_timestamps, maint_local.ip, maint_local.new)
    /\ proc_local' = Orphans(maint_local.ip)
    /\ maint_pc' = "test"
    /\ last' = Idle
    /\ UNCHANGED <<config, running, now, packet_queue, packet_counts,
                   syn_flood_tracking, http_flood_tracking, icmp_flood_tracking,
                   blocked_ips, alert_history, proc_pc, alert_log, processed,
                   block_log, unblock_log, stop_raised, maint_local>>

\* if len(self.packet_timestamps[ip]) == 0
SweepTest ==
    /\ maint_pc = "test"
    /\ LET pt1 == TouchList(packet_timestamps, maint_local.ip)
       IN /\ packet_timestamps' = pt1
          /\ IF Len(pt1[maint_local.ip]) = 0
             THEN /\ maint_pc' = "delete"
                  /\ UNCHANGED maint_local
             ELSE /\ maint_pc' = NextKey(maint_local.keys)
                  /\ maint_local' =
                       IF maint_local.keys = <<>> THEN NoLocal
                       ELSE [maint_local EXCEPT !.ip = Head(maint_local.keys),
                                                !.keys = Tail(maint_local.keys)]
    /\ last' = Idle
    /\ UNCHANGED <<config, running, now, packet_queue, packet_counts,
                   syn_flood_tracking, http_flood_tracking, icmp_flood_tracking,
                   blocked_ips, alert_history, proc_pc, alert_log, processed,
                   block_log, unblock_log, stop_raised, proc_local>>

\* del self.packet_timestamps[ip] and the four pops
SweepDelete ==
    /\ maint_pc = "delete"
    /\ LET ip == maint_local.ip
       IN /\ packet_timestamps' = Pop(packet_timestamps, ip)
          /\ packet_counts' = Pop(packet_counts, ip)
          /\ syn_flood_tracking' = Pop(syn_flood_tracking, ip)
          /\ http_flood_tracking' = Pop(http_flood_tracking, ip)
          /\ icmp_flood_tracking' = Pop(icmp_flood_tracking, ip)
          /\ proc_local' = Orphans(ip)
    /\ maint_pc' = NextKey(maint_local.keys)
    /\ maint_local' =
         IF maint_local.keys = <<>> THEN NoLocal
         ELSE [maint_local EXCEPT !.ip = Head(maint_local.keys),
                                  !.keys = Tail(maint_local.keys)]
    /\ last' = [Idle EXCEPT !.step = "evicted", !.ip = maint_local.ip]
    /\ UNCHANGED <<config, running, now, packet_queue, blocked_ips,
                   alert_history, proc_pc, alert_log, processed, block_log,
                   unblock_log, stop_raised>>

NextRace ==
    \/ SubmitFrom(RacePackets, MaxRacePackets)
    \/ TickTo(MaxRaceTime)
    \/ StmtGet
    \/ StmtAppend
    \/ StmtCount
    \/ StmtPrune
    \/ StmtStore
    \/ StmtLen
    \/ StmtCheck
    \/ SweepStart
    \/ SweepCompute
    \/ SweepStore
    \/ SweepTest
    \/ SweepDelete
SpecRace == InitRace /\ [][NextRace]_vars

\* --------------------------------------------------------------- races
\* How often t occurs in a sequence; the recorded events of ip still in the
\* window now.
CountOf(seq, t) == Cardinality({i \in DOMAIN seq : seq[i] = t})
InWindow(ip) == {i \in DOMAIN processed[ip] : now - processed[ip][i] <= time_window}

\* C22: under every interleaving of the steps of the two threads, every
\* timestamp the Processor has appended that is still in the window is in
\* the source's window, and every increment of packet_counts and of the SYN
\* counter made for such an event is still counted (the Processor may be
\* between its append and its increments for the newest event).
C22_NoLostUpdate ==
    \A ip \in PublicSources :
        LET pending == IF proc_pc = "count" /\ proc_local.ip = ip THEN 1 ELSE 0
        IN /\ \A i \in InWindow(ip) :
                CountOf(GetList(packet_timestamps, ip), processed[ip][i])
                    >= CountOf(processed[ip], processed[ip][i])
           /\ Get(packet_counts, ip) + pending >= Cardinality(InWindow(ip))
           /\ alert_log = <<>> =>
                Get(syn_flood_tracking, ip) + pending >= Cardinality(InWindow(ip))

\* C22 witness: the Processor has finished an event of source a that is in
\* the window, and the window of a does not hold it.
C22_Witness ==
    /\ proc_pc = "get"
    /\ maint_pc = "run"
    /\ last.step = "handled"
    /\ last.ip = "a"
    /\ processed["a"] # <<>>
    /\ processed["a"][Len(processed["a"])] = now
    /\ now \notin {GetList(packet_timestamps, "a")[i] :
                      i \in DOMAIN GetList(packet_timestamps, "a")}

\* C22, the race of the eviction: Maintenance found the window of a empty,
\* the Processor then appended an event and counted it, and Maintenance
\* deleted the record and the counters: the event is in no window and in no
\* counter.
C22_WitnessEvicted ==
    /\ last.step = "evicted"
    /\ last.ip = "a"
    /\ proc_pc = "prune"
    /\ processed["a"] # <<>>
    /\ processed["a"][Len(processed["a"])] = now
    /\ "a" \notin DOMAIN packet_timestamps
    /\ "a" \notin DOMAIN packet_counts
    /\ "a" \notin DOMAIN syn_flood_tracking

\* The record of ip: its window and its four counters, where present.
RecordOf(ip) ==
    <<ip \in DOMAIN packet_timestamps, GetList(packet_timestamps, ip),
      ip \in DOMAIN packet_counts, Get(packet_counts, ip),
      ip \in DOMAIN syn_flood_tracking, Get(syn_flood_tracking, ip),
      ip \in DOMAIN http_flood_tracking, Get(http_flood_tracking, ip),
      ip \in DOMAIN icmp_flood_tracking, Get(icmp_flood_tracking, ip)>>
\* The Processor is between the prune of _check_thresholds and its last
\* read of a counter.
Evaluating == proc_pc \in {"prune", "store", "len", "check"}

\* C23: while the Processor evaluates the thresholds for an event of a
\* source, no step of another thread changes or deletes that source's
\* record, and the check reads a window of length >= 1 and, for a SYN event,
\* a SYN counter >= 1.
C23_NoPruneMidEvaluation ==
    [][/\ (Evaluating /\ proc_pc' = proc_pc /\ proc_local' = proc_local) =>
            RecordOf(proc_local.ip)' = RecordOf(proc_local.ip)
       /\ (proc_pc = "check" /\ last'.step = "handled") =>
            /\ last'.recent >= 1
            /\ IsSyn(proc_local.packet) => last'.seen[1] >= 1
    ]_vars

\* C23 witness: the threshold check of an event of source a has read an
\* empty window and a SYN counter of 0, Maintenance having deleted the
\* record after the Processor's prune.
C23_Witness ==
    /\ last.step = "handled"
    /\ last.ip = "a"
    /\ last.recent = 0
    /\ last.seen[1] = 0
    /\ processed["a"] # <<>>
    /\ processed["a"][Len(processed["a"])] = now

\* --------------------------------------------------------- classification
\* Every packet of source a the capture can deliver: TCP with either value
\* of SYN and ACK, to port 22, 80 or 443, UDP and ICMP, each without payload
\* or with a payload that holds one of the markers or none.
Loads == {"", "GET", "POST", "HTTP", "junk"}
ClassifyPackets ==
    {Pkt("a", TRUE, TRUE, syn, ack, dport, load # "", load, FALSE) :
        syn \in BOOLEAN, ack \in BOOLEAN, dport \in {22, 80, 443}, load \in Loads}
    \cup {Pkt("a", TRUE, FALSE, FALSE, FALSE, dport, load # "", load, FALSE) :
             dport \in {53, 80}, load \in Loads}
    \cup {Pkt("a", TRUE, FALSE, FALSE, FALSE, 0, load # "", load, TRUE) :
             load \in Loads}

\* The Processor handles one packet of ClassifyPackets; its source has no
\* record yet, or a record with one timestamp and any counters up to
\* MaxClassifyCounter.
InitClassify ==
    /\ threshold \in Thresholds
    /\ time_window = 1
    /\ block_ips = FALSE
    /\ api_url = FALSE
    /\ maxlen = AlertHistoryMaxlen
    /\ PROCESS_PRIVATE_IPS = FALSE
    /\ running = TRUE
    /\ now = 0
    /\ \E packet \in ClassifyPackets : packet_queue = <<packet>>
    /\ \E known \in BOOLEAN :
         IF ~known
         THEN /\ packet_timestamps = EmptyDict
              /\ packet_counts = EmptyDict
              /\ syn_flood_tracking = EmptyDict
              /\ http_flood_tracking = EmptyDict
              /\ icmp_flood_tracking = EmptyDict
              /\ processed = [ip \in Sources |-> <<>>]
         ELSE /\ packet_timestamps = [ip \in {"a"} |-> <<0>>]
              /\ packet_counts = [ip \in {"a"} |-> 1]
              /\ \E c \in 0..MaxClassifyCounter :
                    syn_flood_tracking = [ip \in {"a"} |-> c]
              /\ \E c \in 0..MaxClassifyCounter :
                    http_flood_tracking = [ip \in {"a"} |-> c]
              /\ \E c \in 0..MaxClassifyCounter :
                    icmp_flood_tracking = [ip \in {"a"} |-> c]
              /\ processed = [ip \in Sources |-> IF ip = "a" THEN <<0>> ELSE <<>>]
    /\ blocked_ips = {}
    /\ alert_history = <<>>
    /\ alert_log = <<>>
    /\ proc_pc = "get"
    /\ maint_pc = "run"
    /\ last = Idle
    /\ block_log = <<>>
    /\ unblock_log = <<>>
    /\ stop_raised = FALSE
    /\ proc_local = NoLocal
    /\ maint_local = NoLocal
SpecClassify == InitClassify /\ [][ProcHandle]_vars

\* The three counters of ip, and what _check_attack_signatures added to
\* each of them in this step: last'.seen holds the counters as the threshold
\* check found them, before an alert resets them.
CountersOf(ip) ==
    <<Get(syn_flood_tracking, ip), Get(http_flood_tracking, ip),
      Get(icmp_flood_tracking, ip)>>
Added(i) == last'.seen[i] - CountersOf(last'.ip)[i]

\* C24: for every packet the three counters of its source grow by 0 or 1 in
\* all.
C24_AtMostOneSignature ==
    [][last'.step = "handled" => Added(1) + Added(2) + Added(3) \in {0, 1}]_vars

\* C24 witness: a TCP packet with SYN set and ACK clear, to port 80 or 443,
\* whose payload holds a marker, has been counted as SYN and as HTTP.
C24_Witness ==
    /\ last.step = "handled"
    /\ last.ip = "a"
    /\ last.seen = <<1, 1, 0>>
    /\ Len(processed["a"]) = 1

\* 1 if the condition holds, else 0.
Bit(b) == IF b THEN 1 ELSE 0

\* C25: handling a packet adds 1 to the SYN counter of its source exactly if
\* it is TCP with SYN set and ACK clear, to the HTTP counter exactly if it is
\* TCP to port 80 or 443 with a payload that holds "GET", "POST" or "HTTP",
\* and to the ICMP counter exactly if it is ICMP, and nothing otherwise; a
\* packet that matches none changes no counter and its timestamp is still
\* appended to the window.
C25_SignatureConditions ==
    [][(packet_queue # <<>> /\ last'.step = "handled") =>
          LET packet == Head(packet_queue)
              src_ip == packet.src
              syn == packet.tcp /\ packet.syn /\ ~packet.ack
              http == /\ packet.tcp
                      /\ packet.dport \in {80, 443}
                      /\ packet.raw
                      /\ packet.load \in {"GET", "POST", "HTTP"}
              icmp == packet.icmp
          IN /\ last'.ip = src_ip
             /\ Added(1) = Bit(syn)
             /\ Added(2) = Bit(http)
             /\ Added(3) = Bit(icmp)
             /\ processed'[src_ip] = Append(processed[src_ip], now)
             /\ Len(packet_timestamps'[src_ip]) =
                    Len(GetList(packet_timestamps, src_ip)) + 1
             /\ packet_timestamps'[src_ip][Len(packet_timestamps'[src_ip])] = now
             /\ (~syn /\ ~http /\ ~icmp /\ last'.fired = 0) =>
                   /\ Get(syn_flood_tracking', src_ip) = Get(syn_flood_tracking, src_ip)
                   /\ Get(http_flood_tracking', src_ip) = Get(http_flood_tracking, src_ip)
                   /\ Get(icmp_flood_tracking', src_ip) = Get(icmp_flood_tracking, src_ip)
    ]_vars

\* C25 witness: a packet that matches no signature was handled for a source
\* with a record: no counter has changed, no alert was raised and the window
\* has grown.
C25_Witness ==
    /\ last.step = "handled"
    /\ last.ip = "a"
    /\ last.seen = <<0, 0, 0>>
    /\ last.fired = 0
    /\ CountersOf("a") = <<0, 0, 0>>
    /\ packet_timestamps["a"] = <<0, 0>>

\* C25, a packet with SYN and ACK set: not counted as SYN.
C25_WitnessHttpOnly ==
    /\ last.step = "handled"
    /\ last.seen = <<0, 1, 0>>
    /\ Len(processed["a"]) = 1

\* ------------------------------------------------------------ alert frame
\* The timestamps of w that are within time_window of current_time.
Recent(w, current_time) ==
    SelectSeq(w, LAMBDA ts : current_time - ts <= time_window)
\* The five stores hold for ip after the step what they held before it.
SameRecord(ip) ==
    /\ (ip \in DOMAIN packet_timestamps') = (ip \in DOMAIN packet_timestamps)
    /\ GetList(packet_timestamps', ip) = GetList(packet_timestamps, ip)
    /\ (ip \in DOMAIN packet_counts') = (ip \in DOMAIN packet_counts)
    /\ Get(packet_counts', ip) = Get(packet_counts, ip)
    /\ (ip \in DOMAIN syn_flood_tracking') = (ip \in DOMAIN syn_flood_tracking)
    /\ Get(syn_flood_tracking', ip) = Get(syn_flood_tracking, ip)
    /\ (ip \in DOMAIN http_flood_tracking') = (ip \in DOMAIN http_flood_tracking)
    /\ Get(http_flood_tracking', ip) = Get(http_flood_tracking, ip)
    /\ (ip \in DOMAIN icmp_flood_tracking') = (ip \in DOMAIN icmp_flood_tracking)
    /\ Get(icmp_flood_tracking', ip) = Get(icmp_flood_tracking, ip)

\* C26: after a step that appends an alert for a source, that source's
\* three signature counters are 0, whether the firewall command and the
\* report succeeded or failed; its window is what recording and pruning the
\* event made of it (the alert removes no timestamp), its packet count has
\* grown by one, and the records of all other sources are as before.
C26_AlertResetsCounters ==
    [][last'.fired = 1 =>
          LET src_ip == last'.ip
          IN /\ src_ip \in DOMAIN syn_flood_tracking'
             /\ syn_flood_tracking'[src_ip] = 0
             /\ src_ip \in DOMAIN http_flood_tracking'
             /\ http_flood_tracking'[src_ip] = 0
             /\ src_ip \in DOMAIN icmp_flood_tracking'
             /\ icmp_flood_tracking'[src_ip] = 0
             /\ packet_timestamps'[src_ip] =
                   Recent(Append(GetList(packet_timestamps, src_ip), now), now)
             /\ packet_counts'[src_ip] = Get(packet_counts, src_ip) + 1
             /\ \A ip \in Sources \ {src_ip} : SameRecord(ip)
    ]_vars

\* C26 witness: the alert for source a was raised by a SYN packet, the
\* firewall command and the report both failed; a's counters are 0, its
\* window holds the event and the record of b is there.
C26_Witness ==
    /\ last.step = "handled"
    /\ last.ip = "a"
    /\ last.fired = 1
    /\ last.seen[1] >= 1
    /\ block_log # <<>>
    /\ block_log[Len(block_log)] = [ip |-> "a", timestamp |-> now, ok |-> FALSE]
    /\ Len(last.reports) = 1
    /\ ~last.reports[1].ok
    /\ CountersOf("a") = <<0, 0, 0>>
    /\ packet_timestamps["a"] # <<>>
    /\ "b" \in DOMAIN packet_timestamps
    /\ icmp_flood_tracking["b"] = 0
    /\ packet_timestamps["b"] # <<>>

\* C27: a step in which _trigger_alert was called and found an alert of the
\* same source younger than 2 * time_window leaves alert_history, the alert
\* log and blocked_ips unchanged, runs no firewall command and sends no
\* report; the source's counters stay as the threshold check read them (the
\* old values plus what this packet added, never less than before), its
\* window is the recorded and pruned window, and no other source's record
\* changes.
C27_SuppressedChangesNothing ==
    [][(last'.step = "handled" /\ last'.calls # <<>> /\ last'.fired = 0) =>
          LET src_ip == last'.ip
          IN /\ \E i \in DOMAIN alert_history :
                   /\ alert_history[i].src_ip = src_ip
                   /\ now - alert_history[i].timestamp < 2 * time_window
             /\ UNCHANGED <<alert_history, alert_log, blocked_ips, block_log,
                            unblock_log>>
             /\ last'.reports = <<>>
             /\ Len(last'.calls) = 1
             /\ Get(syn_flood_tracking', src_ip) = last'.seen[1]
             /\ Get(http_flood_tracking', src_ip) = last'.seen[2]
             /\ Get(icmp_flood_tracking', src_ip) = last'.seen[3]
             /\ last'.seen[1] >= Get(syn_flood_tracking, src_ip)
             /\ last'.seen[2] >= Get(http_flood_tracking, src_ip)
             /\ last'.seen[3] >= Get(icmp_flood_tracking, src_ip)
             /\ Added(1) + Added(2) + Added(3) >= 1 =>
                   CountersOf(src_ip) # <<Get(syn_flood_tracking', src_ip),
                                          Get(http_flood_tracking', src_ip),
                                          Get(icmp_flood_tracking', src_ip)>>
             /\ packet_timestamps'[src_ip] =
                   Recent(Append(GetList(packet_timestamps, src_ip), now), now)
             /\ \A ip \in Sources \ {src_ip} : SameRecord(ip)
    ]_vars

\* C27 witness: the second SYN packet of source a qualified within the
\* dedup window of a's alert: no second alert, no command, no report, and
\* the SYN counter of a, reset by the alert, has grown to 1.
C27_Witness ==
    /\ api_url
    /\ block_ips
    /\ last.step = "handled"
    /\ last.ip = "a"
    /\ last.calls # <<>>
    /\ last.fired = 0
    /\ last.reports = <<>>
    /\ Len(alert_log) = 1
    /\ alert_log[1].src_ip = "a"
    /\ Len(block_log) = 1
    /\ "a" \notin blocked_ips
    /\ syn_flood_tracking["a"] = 1
    /\ Len(packet_timestamps["a"]) = 2

\* ------------------------------------------------------ prune before check
\* C28: the window length the threshold check compares with the threshold
\* counts no timestamp older than time_window at the event's time: it is at
\* most the number of recorded events of the source within time_window of
\* the event, and every timestamp of the window it measured is within
\* time_window.
C28_PruneBeforeCompare ==
    [][(proc_pc = "len" /\ proc_pc' = "check") =>
          LET src_ip == proc_local.ip
              t == proc_local.now
              w == packet_timestamps'[src_ip]
          IN /\ proc_local'.recent_packets = Len(w)
             /\ \A i \in DOMAIN w : t - w[i] <= time_window
    ]_vars

\* C28 witness: the threshold check of the event of source a recorded now
\* has measured a window that holds a timestamp older than time_window and
\* not the event's own.
C28_Witness ==
    /\ last.step = "handled"
    /\ last.ip = "a"
    /\ last.recent = 1
    /\ processed["a"][Len(processed["a"])] = now
    /\ GetList(packet_timestamps, "a") # <<>>
    /\ now - GetList(packet_timestamps, "a")[1] > time_window

\* C28 without interference: when the whole handling of a packet runs
\* without a step of Maintenance in between, the measured window holds only
\* timestamps within time_window of the event.
C28_PrunedWhenUndisturbed ==
    [][(proc_pc = "get" /\ last'.step = "handled") =>
          LET w == packet_timestamps'[last'.ip]
          IN /\ last'.recent = Len(w)
             /\ \A i \in DOMAIN w : now - w[i] <= time_window
             /\ w = Recent(Append(GetList(packet_timestamps, last'.ip), now), now)
    ]_vars

\* ------------------------------------------------------------ blocked set
\* C29: every ip in blocked_ips got there with block_ips set, by a firewall
\* command that succeeded and that was run for an alert of that ip appended
\* at the same time; a firewall command is run only in a step that appends
\* an alert for its ip; with block_ips false no command is ever run and
\* blocked_ips is empty.
C29_BlockedMembership ==
    /\ [](/\ \A ip \in blocked_ips :
               /\ block_ips
               /\ \E i \in DOMAIN block_log :
                     /\ block_log[i].ip = ip
                     /\ block_log[i].ok
                     /\ \E j \in DOMAIN alert_log :
                           /\ alert_log[j].src_ip = ip
                           /\ alert_log[j].timestamp = block_log[i].timestamp
          /\ ~block_ips => (block_log = <<>> /\ blocked_ips = {}))
    /\ [][/\ block_log' # block_log =>
               /\ block_ips
               /\ last'.fired = 1
               /\ block_log' = Append(block_log,
                                      block_log'[Len(block_log')])
               /\ block_log'[Len(block_log')].ip = last'.ip
               /\ alert_log'[Len(alert_log')].src_ip = last'.ip
               /\ Len(alert_log') = Len(alert_log) + 1
          /\ \A ip \in blocked_ips' \ blocked_ips :
               /\ block_log' # block_log
               /\ block_log'[Len(block_log')] =
                      [ip |-> ip, timestamp |-> now, ok |-> TRUE]
      ]_vars

\* C29 witness: the command for source a succeeded and a is blocked; the
\* command for source b failed and b, although alerted, is not.
C29_Witness ==
    /\ block_ips
    /\ blocked_ips = {"a"}
    /\ \E i \in DOMAIN block_log : block_log[i].ip = "a" /\ block_log[i].ok
    /\ \E i \in DOMAIN block_log : block_log[i].ip = "b" /\ ~block_log[i].ok
    /\ AlertsOf(alert_log, "b") # {}
    /\ unblock_log = <<>>

\* ------------------------------------------------------ small thresholds
\* The label of the alert call made on the general branch.
GeneralLabel == last'.calls[1].attack_type

\* C30 as claimed: with a threshold below 5 the general branch always
\* labels its alert General DoS.
C30_SmallThresholdGeneralDoS ==
    [][(last'.step = "handled" /\ last'.branches = <<"general">>
        /\ last'.fired = 1 /\ threshold < 5) =>
          GeneralLabel = "General DoS"
    ]_vars

\* C30: with a threshold below 5, threshold // 5 is 0 and the general
\* branch labels its alert General DoS exactly if the three counters of the
\* source are all 0; if any counter is 1 or more, the label is that of the
\* largest counter (SYN before HTTP before ICMP on a tie).
C30_SmallThresholdLabel ==
    [][(last'.step = "handled" /\ last'.branches = <<"general">>
        /\ threshold < 5) =>
          LET syn == Get(syn_flood_tracking, "a")
              http == Get(http_flood_tracking, "a")
              icmp == Get(icmp_flood_tracking, "a")
          IN /\ threshold \div 5 = 0
             /\ last'.seen = <<syn, http, icmp>>
             /\ GeneralLabel = "General DoS" <=> (syn = 0 /\ http = 0 /\ icmp = 0)
             /\ GeneralLabel = "SYN flood" <=>
                   (syn >= 1 /\ syn >= http /\ syn >= icmp)
             /\ GeneralLabel = "HTTP flood" <=>
                   (http >= 1 /\ http > syn /\ http >= icmp)
             /\ GeneralLabel = "ICMP flood" <=>
                   (icmp >= 1 /\ icmp > syn /\ icmp > http)
    ]_vars

\* C30 witness: threshold 4, the general branch raised an alert labelled
\* SYN flood for a source whose SYN counter is 1.
C30_Witness ==
    /\ threshold = 4
    /\ GeneralAlert
    /\ last.calls[1] = Call("SYN flood", 4)
    /\ last.seen = <<1, 0, 0>>

\* C30, the case the claim describes: all counters 0, General DoS.
C30_WitnessGeneralDoS ==
    /\ threshold = 4
    /\ GeneralAlert
    /\ last.calls[1] = Call("General DoS", 4)
    /\ last.seen = <<0, 0, 0>>

\* ------------------------------------------------- evidence of an alert
SignatureLabels == {"SYN flood", "HTTP flood", "ICMP flood"}
\* The alert appended by the packet just handled, on whatever branch.
RaisedAlert == alert_log[Len(alert_log)]

\* C31: for every threshold of 1 or more, an alert labelled SYN flood, HTTP
\* flood or ICMP flood has an evidence count of 1 or more, and the counter of
\* its label was 1 or more when the threshold check read it.
C31_SignatureAlertHasEvidence ==
    (threshold >= 1 /\ last.step = "handled" /\ last.fired = 1
        /\ RaisedAlert.attack_type \in SignatureLabels) =>
          /\ RaisedAlert.packet_count >= 1
          /\ SeenCounter(RaisedAlert.attack_type) >= 1

\* C31 witness: threshold 2, the first packet of a source, without any
\* signature, raises an alert labelled HTTP flood with evidence count 0.
C31_Witness ==
    /\ threshold = 2
    /\ last.step = "handled"
    /\ last.branches = <<"http">>
    /\ last.fired = 1
    /\ last.seen = <<0, 0, 0>>
    /\ RaisedAlert = [timestamp |-> 0, src_ip |-> "a", packet_count |-> 0,
                      attack_type |-> "HTTP flood"]
    /\ processed["a"] = <<0>>

\* ---------------------------------------------------------- orphan counters
\* The sources that have an entry in packet_counts or in a signature counter
\* store.
Counted ==
    DOMAIN packet_counts \cup DOMAIN syn_flood_tracking
        \cup DOMAIN http_flood_tracking \cup DOMAIN icmp_flood_tracking

\* C32: under every interleaving of the steps of the two threads, every
\* source with an entry in packet_counts or in a signature counter store
\* has a window in packet_timestamps, the only dict the sweep iterates.
C32_NoOrphanCounters == Counted \subseteq DOMAIN packet_timestamps

\* C32 witness: both threads are at rest, the Processor has finished an
\* event of source a whose record Maintenance deleted between the len() of
\* the threshold check and its reads of the counters: a has signature
\* counters and no window, and no sweep will visit it.
C32_Witness ==
    /\ proc_pc = "get"
    /\ maint_pc = "run"
    /\ packet_queue = <<>>
    /\ last.step = "handled"
    /\ last.ip = "a"
    /\ "a" \in DOMAIN syn_flood_tracking
    /\ "a" \in DOMAIN icmp_flood_tracking
    /\ "a" \notin DOMAIN packet_timestamps
    /\ packet_timestamps = EmptyDict

\* ------------------------------------------------------ blocked until stop
\* The firewall commands _block_ip has run for ip.
BlockCommandsOf(log, ip) == {i \in DOMAIN log : log[i].ip = ip}

\* C33: in every step that leaves the detector running, blocked_ips only
\* grows and no unblock command is run; for a source that is blocked no
\* event is recorded (the recorded events and the cumulative count do not
\* grow), no alert is appended, no block command is run and no alert call or
\* report is made.
C33_BlockedUntilStop ==
    [][running' =>
         /\ blocked_ips \subseteq blocked_ips'
         /\ unblock_log' = unblock_log
         /\ \A ip \in blocked_ips :
              /\ processed'[ip] = processed[ip]
              /\ Get(packet_counts', ip) <= Get(packet_counts, ip)
              /\ Len(GetList(packet_timestamps', ip))
                     <= Len(GetList(packet_timestamps, ip))
              /\ AlertsOf(alert_log', ip) = AlertsOf(alert_log, ip)
              /\ BlockCommandsOf(block_log', ip) = BlockCommandsOf(block_log, ip)
              /\ last'.ip = ip => (last'.calls = <<>> /\ last'.reports = <<>>)
    ]_vars

\* C33 witness: source a was blocked by the alert of its first packet, which
\* was reported; a later packet of a was dropped while the detector runs, and
\* a has one recorded event, one alert and one block command.
C33_Witness ==
    /\ running
    /\ api_url
    /\ "a" \in blocked_ips
    /\ last.step = "blocked"
    /\ last.ip = "a"
    /\ now > 0
    /\ Len(processed["a"]) = 1
    /\ Cardinality(AlertsOf(alert_log, "a")) = 1
    /\ Cardinality(BlockCommandsOf(block_log, "a")) = 1
    /\ unblock_log = <<>>

\* ------------------------------------------------- counters and the window
\* The three counters of ip after the step.
CountersAfter(ip) ==
    <<Get(syn_flood_tracking', ip), Get(http_flood_tracking', ip),
      Get(icmp_flood_tracking', ip)>>
\* The sweep of this step has evicted ip.
Evicted(ip) ==
    ip \in DOMAIN packet_timestamps /\ ip \notin DOMAIN packet_timestamps'

\* C34: the counters of a source change only in three ways.  The handling of
\* a packet of the source adds 1 to each counter whose signature the packet
\* matches, whatever the prune of its window drops, and zeroes all three if
\* it appends an alert; a sweep removes them when it evicts the source, whose
\* window then held no timestamp within time_window, and leaves them as they
\* are when the source stays, whatever it prunes; no other step changes them.
C34_CountersNotWindowed ==
    [][\A ip \in Sources :
         CASE last'.step = "handled" /\ last'.ip = ip ->
                LET packet == Head(packet_queue)
                    counted == <<CountersOf(ip)[1] + Bit(IsSyn(packet)),
                                 CountersOf(ip)[2] + Bit(IsHttp(packet)),
                                 CountersOf(ip)[3] + Bit(IsIcmp(packet))>>
                IN /\ last'.seen = counted
                   /\ CountersAfter(ip) =
                         IF last'.fired = 1 THEN <<0, 0, 0>> ELSE counted
           [] last'.step = "sweep" /\ Evicted(ip) ->
                /\ Recent(packet_timestamps[ip], now) = <<>>
                /\ ip \notin DOMAIN syn_flood_tracking'
                /\ ip \notin DOMAIN http_flood_tracking'
                /\ ip \notin DOMAIN icmp_flood_tracking'
           [] OTHER ->
                /\ CountersAfter(ip) = CountersOf(ip)
                /\ ip \in DOMAIN syn_flood_tracking' <=> ip \in DOMAIN syn_flood_tracking
                /\ ip \in DOMAIN http_flood_tracking' <=> ip \in DOMAIN http_flood_tracking
                /\ ip \in DOMAIN icmp_flood_tracking' <=> ip \in DOMAIN icmp_flood_tracking
    ]_vars

\* C34 witness: threshold 4, time_window 1; source a sent a SYN at time 0
\* and one at time 2 and was never evicted: its window holds one timestamp
\* and the SYN branch raised an alert with evidence count 2.
C34_Witness ==
    /\ threshold = 4
    /\ now = 2
    /\ last.step = "handled"
    /\ last.ip = "a"
    /\ last.branches = <<"syn">>
    /\ last.fired = 1
    /\ last.recent = 1
    /\ last.calls = <<Call("SYN flood", 2)>>
    /\ processed["a"] = <<0, 2>>
    /\ packet_timestamps["a"] = <<2>>

\* C34, the prune of a sweep: source a stays tracked with the timestamp of
\* its SYN of time 0 pruned, and its SYN counter is still 1.
C34_WitnessSweep ==
    /\ last.step = "sweep"
    /\ processed["a"] = <<0, 1>>
    /\ now = 2
    /\ alert_log = <<>>
    /\ GetList(packet_timestamps, "a") = <<1>>
    /\ Get(syn_flood_tracking, "a") = 1

\* ------------------------------------------------------ dedup and eviction
\* DoSDetector(threshold=1, time_window=DedupWindow): a source is evicted
\* more than time_window after its last event, which is still less than
\* 2 * time_window after its alert.
DedupPackets == {SynPacket("a"), IcmpPacket("b")}
InitDedup ==
    /\ threshold = 1
    /\ time_window = DedupWindow
    /\ block_ips = FALSE
    /\ api_url = FALSE
    /\ maxlen = AlertHistoryMaxlen
    /\ PROCESS_PRIVATE_IPS = FALSE
    /\ InitState
NextDedup == NextWith(DedupPackets, MaxDedupPackets, MaxDedupTime)
SpecDedup == InitDedup /\ [][NextDedup]_vars

\* The step handles a packet of ip, which has no record: an alert of ip in
\* the log then dates from before its eviction.
TrackedAgain(ip) ==
    /\ last'.step = "handled"
    /\ last'.ip = ip
    /\ last'.branches # <<>>
    /\ ip \notin DOMAIN packet_timestamps
\* An alert of ip among alerts is younger than 2 * time_window.
YoungAlertOf(alerts, ip) ==
    \E i \in AlertsOf(alerts, ip) : now - alerts[i].timestamp < 2 * time_window

\* C35: a sweep leaves the alert history as it is, and a source that was
\* evicted and is tracked again less than 2 * time_window after its last
\* alert is suppressed: its alert call appends nothing.
C35_DedupOutlivesEviction ==
    [][/\ last'.step = "sweep" =>
            (alert_history' = alert_history /\ alert_log' = alert_log)
       /\ \A ip \in Sources :
            (TrackedAgain(ip) /\ YoungAlertOf(alert_log, ip)) =>
                (last'.fired = 0 /\ alert_log' = alert_log)
    ]_vars

\* C35 witness: source a alerted at time 0 and was evicted; the alert of b
\* pushed a's alert out of the history; a came back at time 3, less than
\* 2 * time_window after its alert, and a second alert of a was appended.
C35_Witness ==
    /\ now = 3
    /\ last.step = "handled"
    /\ last.ip = "a"
    /\ last.fired = 1
    /\ processed["a"] = <<0, 3>>
    /\ packet_timestamps["a"] = <<3>>
    /\ Len(alert_log) = 3
    /\ alert_log[1].src_ip = "a" /\ alert_log[1].timestamp = 0
    /\ alert_log[2].src_ip = "b"
    /\ alert_log[3].src_ip = "a" /\ alert_log[3].timestamp = 3

\* C35 while the alert is in the history: a sweep leaves the history as it
\* is, and an evicted source that is tracked again while an alert of it
\* younger than 2 * time_window is in alert_history is suppressed.
C35_SuppressedWhileInHistory ==
    [][/\ last'.step = "sweep" =>
            (alert_history' = alert_history /\ alert_log' = alert_log)
       /\ \A ip \in Sources :
            (TrackedAgain(ip) /\ YoungAlertOf(alert_history, ip)) =>
                (last'.fired = 0 /\ alert_log' = alert_log
                 /\ alert_history' = alert_history)
    ]_vars

\* The case of C35_SuppressedWhileInHistory: a was evicted, came back at
\* time 3 and its alert call was suppressed by its alert of time 0.
C35_WitnessSuppressed ==
    /\ now = 3
    /\ last.step = "handled"
    /\ last.ip = "a"
    /\ last.fired = 0
    /\ Len(last.calls) = 1
    /\ processed["a"] = <<0, 3>>
    /\ packet_timestamps["a"] = <<3>>
    /\ alert_history = <<[timestamp |-> 0, src_ip |-> "a", packet_count |-> 1,
                          attack_type |-> "SYN flood"]>>

\* ----------------------------------------------------------- after stop()
\* The step takes a packet from the queue.
Dequeues == packet_queue # <<>> /\ packet_queue' = Tail(packet_queue)
\* The steps of the Processor: it handles or drops a packet, or its get()
\* times out.
ProcessorStep == proc_pc' # proc_pc \/ Dequeues

\* C36: once running is false, a step of the Processor is its last: it
\* started in packet_queue.get before or after stop(), takes at most the
\* head of the queue and leaves the loop.  From then on no packet is taken
\* from the queue and no step records an event, calls _trigger_alert,
\* appends an alert or changes blocked_ips; the tracking stores change only
\* by a sweep.
C36_AtMostOneAfterStop ==
    [][/\ (~running /\ ProcessorStep) =>
            /\ proc_pc = "get"
            /\ proc_pc' = "done"
            /\ Len(packet_queue') >= Len(packet_queue) - 1
            /\ \A ip \in Sources : Len(processed'[ip]) <= Len(processed[ip]) + 1
            /\ Cardinality({ip \in Sources : processed'[ip] # processed[ip]}) <= 1
       /\ proc_pc = "done" =>
            /\ ~running
            /\ proc_pc' = "done"
            /\ packet_queue' = packet_queue
            /\ processed' = processed
            /\ alert_history' = alert_history
            /\ alert_log' = alert_log
            /\ blocked_ips' = blocked_ips
            /\ block_log' = block_log
            /\ last'.step \notin {"handled", "private", "blocked"}
            /\ last'.step # "sweep" => stores' = stores
    ]_vars

\* C36 witness: after stop() the Processor has handled one packet of source
\* a, with an alert, and has left its loop; a packet is still in the queue.
C36_Witness ==
    /\ ~running
    /\ proc_pc = "done"
    /\ last.step = "handled"
    /\ last.ip = "a"
    /\ last.fired = 1
    /\ Len(packet_queue) >= 1
    /\ Len(processed["a"]) = 1

\* ------------------------------------------------------ submit after stop
\* The step puts a packet into the queue.
Enqueues == Len(packet_queue') > Len(packet_queue)

\* C37: every packet in the queue has an IP layer; a step puts a packet into
\* the queue only while running is true and then appends one packet with an
\* IP layer at the tail; once running is false the queue never grows.
C37_NoSubmitAfterStop ==
    /\ [](\A i \in DOMAIN packet_queue : packet_queue[i].ip)
    /\ [][/\ Enqueues =>
               /\ running
               /\ running'
               /\ \E packet \in Packets :
                    packet.ip /\ packet_queue' = Append(packet_queue, packet)
          /\ ~running => Len(packet_queue') <= Len(packet_queue)
       ]_vars

\* C37 witness: stop() has run and both threads have left their loops; one
\* packet is in the queue, the capture may still deliver packets and the
\* queue stays as it is.
C37_Witness ==
    /\ ~running
    /\ proc_pc = "done"
    /\ maint_pc = "done"
    /\ last.step = "idle"
    /\ Len(packet_queue) = 1
    /\ Recorded + Len(packet_queue) < MaxPackets

====
